---- MODULE Spec2Model ----
(***************************************************************************)
(* A model of the alicia_server runtime: the room system, the one-time     *)
(* password hand-off, the race director's stage machine and the lobby      *)
(* login pipeline.  Time is kept as the time remaining until each time     *)
(* point (0 = the time point has been reached), in milliseconds.           *)
(***************************************************************************)
EXTENDS Integers, Sequences, FiniteSets, TLC

\* ------------------------------------------------------------------ bounds
\* Clients (and characters: client i plays character i) of the model.
NumClients == 2
\* Rooms the lobby may create in one behaviour.
MaxRooms == 1
\* Rooms the race director starts with in SpecRace.
RaceRooms == 2
\* Largest playerCount a MakeRoom / ChangeRoomOptions command carries.
MaxPlayerInput == 2
\* One-time passwords the lobby may grant in one behaviour.
MaxCodes == 2
\* Races the masters may start in one behaviour.
MaxStarts == 2
\* Threads that call the room system in SpecRoomSys.
NumThreads == 2
\* Rooms the threads may create in one behaviour of SpecRoomSys.
MaxCreates == 2
\* Addresses at which the room map may allocate an entry.
NumAddrs == 2

\* ------------------------------------------------------- program constants
InvalidUid == 0
MaxRoomPlayers == 8
LoadingTimeoutSeconds == 30
FinishingTimeoutSeconds == 15
RoomCountdownMs == 3000
DequeueDelaySeconds == 7
\* MapBlockInfo.timeLimit of the course registry (seconds), for every map block.
MapTimeLimitSeconds == 60

ClientIds == 1..NumClients
CharacterUids == 1..NumClients
PlayerCounts == 0..MaxPlayerInput
Passwords == {"", "pw"}
Names == {"", "room"}
Stages == {"Waiting", "Loading", "Racing", "Finishing"}
RacerStates == {"Disconnected", "Loading", "Racing", "Finishing"}

VARIABLES
  \* RoomSystem
  sequencedId,      \* RoomSystem::_sequencedId
  rooms,            \* RoomSystem::_rooms : uid -> Room
  \* OtpSystem
  otpCodes,         \* identity hash -> code
  nextCode,         \* codes granted so far
  \* LobbyNetworkHandler (room hand-off part)
  lobbyTasks,       \* delayed dequeue tasks of the lobby scheduler
  \* RaceDirector
  raceClients,      \* RaceDirector::_clients : clientId -> ClientContext
  raceInstances,    \* RaceDirector::_raceInstances : roomUid -> RoomInstance
  raceTasks,        \* delayed tasks of the race director's scheduler
  connected,        \* race clients whose connection is open
  everConnected,    \* race client ids already handed out
  faulted,          \* race clients whose handler threw (to be disconnected)
  raceStarts,       \* races started so far
  \* RoomSystem, thread by thread
  roomNode,         \* uid -> address of the entry of RoomSystem::_rooms
  roomMutex,        \* address -> thread holding Entry::mutex there (0: none)
  roomsLock,        \* thread holding RoomSystem::_roomsLock (0: none)
  threads,          \* thread -> the room-system call it is in
  constructed,      \* uids whose CreateRoom has returned from its consumer
  \* LobbyNetworkHandler / LobbyDirector (login pipeline)
  lobbyClients,     \* LobbyNetworkHandler::_clients : clientId -> ClientContext
  lobbyEverConnected, \* lobby client ids already handed out
  lobbyFaulted,     \* lobby clients whose handler threw (to be disconnected)
  loginSent,        \* lobby clients that have sent their login frame
  clientLogins,     \* LobbyDirector::_clientLogins : clientId -> QueuedLogin
  loginRequestQueue,  \* LobbyDirector::_loginRequestQueue
  loginResponseQueue, \* LobbyDirector::_loginResponseQueue
  userInstances,    \* keys of LobbyDirector::_userInstances
  charactersForcedIntoCreator, \* LobbyDirector::_charactersForcedIntoCreator
  userCharacter,    \* user records: user name -> characterUid
  loginTasks,       \* tasks queued on the lobby director's scheduler, in order
  loginFrames,      \* clientId -> the login-response frames sent to it
  \* history of the login pipeline
  respEntered,      \* clients in the order they entered the response queue
  respProcessed,    \* clients in the order the response loop answered them
  tickResponses,    \* answers the response loop produced in the last Tick
  lateFrames,       \* clients sent a frame when they had no context any more
  droppedResponses, \* clients whose answer found no context and was dropped
  removedFromQueue, \* clients QueueClientDisconnect took out of a login queue
  dupSessions,      \* connected clients answered while their user was in
                    \* _userInstances
  \* history
  lastOp,           \* what ran last: "Tick" (RaceDirector::Tick), "Handler", "Time"
  stagePath,        \* per instance: the stage values it took during lastOp
  usedCodes,        \* <<hash, code>> pairs AuthorizeCode has accepted
  codeReused,       \* a pair accepted before was presented again: "none",
                    \* "refused" (every time) or "accepted" (at least once)
  lastCall,         \* the race director handler the last step ran, if traced
  countdownSent,    \* the clients the last step queued a race-countdown for
  \* functions taken on their own
  callArgs,         \* the arguments drawn for the function under study
  callResult,       \* what the calls made so far returned
  \* a race being run: course registry, room, RoomInstance, scheduler, clock
  gameModeInfos,    \* CourseRegistry: game mode -> GameModeInfo
  playRoom,         \* Room::_details.gameMode of the race's room
  playInstance,     \* the RoomInstance of the race: raceGameMode, tracker
  playTasks,        \* item-respawn tasks queued on the scheduler
  playNow,          \* steady clock, in ms
  spawnSent,        \* <<client, item>> of the item-spawn frames of the last step
  playCalls,        \* commands handled so far
  \* LobbyDirector::Tick, pass by pass
  tickPc,           \* where the call of Tick is: idle, responses, requests, scheduler
  dataBeingLoaded,  \* user names DataDirector::AreDataBeingLoaded is true for
  tickPasses        \* passes of the loops begun in this call of Tick

roomVars == <<sequencedId, rooms>>
otpVars == <<otpCodes, nextCode>>
raceVars ==
  <<raceClients, raceInstances, raceTasks, connected, everConnected, faulted, raceStarts>>
histVars == <<lastOp, stagePath, usedCodes, codeReused, lastCall, countdownSent>>
threadVars == <<roomNode, roomMutex, roomsLock, threads, constructed>>
loginVars ==
  <<lobbyClients, lobbyEverConnected, lobbyFaulted, loginSent, clientLogins,
    loginRequestQueue, loginResponseQueue, userInstances, charactersForcedIntoCreator,
    userCharacter, loginTasks, loginFrames>>
loginHistVars ==
  <<respEntered, respProcessed, tickResponses, lateFrames, droppedResponses,
    removedFromQueue, dupSessions>>
playVars == <<gameModeInfos, playRoom, playInstance, playTasks, playNow, spawnSent, playCalls>>
tickVars == <<tickPc, dataBeingLoaded, tickPasses>>
unitVars == <<callArgs, callResult, playVars, tickVars>>
vars ==
  <<roomVars, otpVars, lobbyTasks, raceVars, histVars, threadVars, loginVars, loginHistVars,
    unitVars>>

\* ----------------------------------------------------------------- helpers
EmptyMap == [x \in {} |-> TRUE]
Put(f, k, v) == [x \in (DOMAIN f) \cup {k} |-> IF x = k THEN v ELSE f[x]]
Drop(f, k) == [x \in (DOMAIN f) \ {k} |-> f[x]]
Min(a, b) == IF a < b THEN a ELSE b
Max(a, b) == IF a > b THEN a ELSE b
\* Time remaining after d milliseconds have passed.
Elapse(t, d) == IF t > d THEN t - d ELSE 0

\* ------------------------------------------------------------------- Room
\* Room::Room(uid): default details, no players.
NewRoom ==
  [name |-> "", maxPlayerCount |-> 0, password |-> "",
   queuedPlayers |-> {}, players |-> {}, isPlaying |-> FALSE]

IsRoomFull(room) ==
  Cardinality(room.players) + Cardinality(room.queuedPlayers) >= room.maxPlayerCount

QueuePlayer(room, characterUid) ==
  IF IsRoomFull(room) THEN room
  ELSE [room EXCEPT !.queuedPlayers = @ \cup {characterUid}]

DequeuePlayer(room, characterUid) ==
  [room EXCEPT !.queuedPlayers = @ \ {characterUid}]

\* Whether Room::AddPlayer returns true.
CanAddPlayer(room) == ~(Cardinality(room.players) >= room.maxPlayerCount)

\* An AddPlayer that leaves the queue entry behind.
AddKeepsQueued(room, characterUid) ==
  IF ~CanAddPlayer(room) THEN room
  ELSE [room EXCEPT !.players = @ \cup {characterUid}]

AddPlayer(room, characterUid) ==
  IF ~CanAddPlayer(room) THEN room
  ELSE [room EXCEPT !.queuedPlayers = @ \ {characterUid},
                    !.players = @ \cup {characterUid}]

RemovePlayer(room, characterUid) ==
  [room EXCEPT !.players = @ \ {characterUid}]

RoomExists(uid) == uid \in DOMAIN rooms

\* -------------------------------------------------------------------- OTP
IdentityHash(characterUid, roomUid) == <<characterUid, roomUid>>

\* OtpSystem::AuthorizeCode: whether the code is the one stored for the hash.
AuthorizeCode(hash, code) == hash \in DOMAIN otpCodes /\ otpCodes[hash] = code

\* A code map that keeps an authorised code.
OtpKeepsCode(hash, code) == otpCodes

\* The code map after AuthorizeCode(hash, code): an authorised code is consumed.
OtpAfterAuthorize(hash, code) ==
  IF AuthorizeCode(hash, code) THEN Drop(otpCodes, hash) ELSE otpCodes

\* OtpSystem::GrantCode(hash): a fresh code stored for the hash.
GrantCode(hash) ==
  /\ nextCode < MaxCodes
  /\ nextCode' = nextCode + 1
  /\ otpCodes' = Put(otpCodes, hash, nextCode + 1)

\* ------------------------------------------------------------ RaceDirector
NewClientContext ==
  [characterUid |-> InvalidUid, roomUid |-> InvalidUid, isAuthenticated |-> FALSE]

\* RoomInstance{}: stage Waiting, default time point (already reached).
NewRoomInstance ==
  [stage |-> "Waiting", stageTimeout |-> 0, masterUid |-> InvalidUid,
   clients |-> {}, racers |-> EmptyMap]

\* _raceInstances[uid]: operator[] creates a default instance when there is none.
WithInstance(I, uid) == IF uid \in DOMAIN I THEN I ELSE Put(I, uid, NewRoomInstance)

\* GetClientContext(clientId, requireAuthorized) does not throw.
HasClientContext(clientId, requireAuthorized) ==
  /\ clientId \in DOMAIN raceClients
  /\ requireAuthorized => raceClients[clientId].isAuthenticated

IsRacer(inst, characterUid) == characterUid \in DOMAIN inst.racers

\* The stage values of one operation, consecutive repetitions removed.
RECURSIVE Compress(_)
Compress(s) ==
  IF Len(s) <= 1 THEN s
  ELSE IF s[1] = s[2] THEN Compress(Tail(s))
  ELSE <<s[1]>> \o Compress(Tail(s))

\* The stage path of every instance of I1 for an operation that took the
\* instances from I0 to I1 (an instance created by the operation starts Waiting).
PathOf(I0, I1) ==
  [r \in DOMAIN I1 |->
     Compress(<<IF r \in DOMAIN I0 THEN I0[r].stage ELSE "Waiting", I1[r].stage>>)]

\* The value of lastCall after a step that ran no traced handler.
NoCall == [op |-> "none", client |-> 0, roomUid |-> 0, characterUid |-> 0, threw |-> FALSE]

\* ---------------------------------------------- LobbyNetworkHandler (rooms)
\* HandleMakeRoom: the room is created first, then configured by the consumer;
\* an empty name outside training leaves it unconfigured and answers cancel.
LobbyMakeRoom(characterUid, playerCount, name, password) ==
  /\ sequencedId < MaxRooms
  /\ LET uid == sequencedId + 1
         isTraining == playerCount = 1
         rejected == name = "" /\ ~isTraining
         configured == [NewRoom EXCEPT !.name = name, !.password = password,
                          !.maxPlayerCount = Max(Min(playerCount, MaxRoomPlayers), 0)]
     IN /\ sequencedId' = uid
        /\ IF rejected
             THEN /\ rooms' = Put(rooms, uid, NewRoom)
                  /\ UNCHANGED otpVars
             ELSE /\ rooms' = Put(rooms, uid, QueuePlayer(configured, characterUid))
                  /\ GrantCode(IdentityHash(characterUid, uid))
  /\ lastOp' = "Handler"
  /\ stagePath' = PathOf(raceInstances, raceInstances)
  /\ UNCHANGED <<lobbyTasks, raceVars, usedCodes, codeReused>>
  /\ UNCHANGED <<threadVars, loginVars, loginHistVars, unitVars>>
  /\ countdownSent' = {}

\* HandleEnterRoom of the lobby: the player is queued whenever the room is not
\* full; the password only decides the answer.
LobbyEnterRoom(characterUid, roomUid, password) ==
  /\ IF ~RoomExists(roomUid)
       THEN UNCHANGED <<roomVars, otpVars, lobbyTasks>>
       ELSE LET room == rooms[roomUid]
                isAuthorized == IF room.password # "" THEN room.password = password ELSE TRUE
                isRoomFull == IsRoomFull(room)
            IN /\ rooms' = [rooms EXCEPT ![roomUid] =
                              IF isRoomFull THEN @ ELSE QueuePlayer(@, characterUid)]
               /\ UNCHANGED sequencedId
               /\ IF isAuthorized /\ ~isRoomFull
                    THEN /\ GrantCode(IdentityHash(characterUid, roomUid))
                         /\ lobbyTasks' = lobbyTasks \cup
                              {[characterUid |-> characterUid, roomUid |-> roomUid,
                                due |-> DequeueDelaySeconds * 1000]}
                    ELSE UNCHANGED <<otpVars, lobbyTasks>>
  /\ lastOp' = "Handler"
  /\ stagePath' = PathOf(raceInstances, raceInstances)
  /\ UNCHANGED <<raceVars, usedCodes, codeReused>>
  /\ UNCHANGED <<threadVars, loginVars, loginHistVars, unitVars>>
  /\ countdownSent' = {}

\* The lobby scheduler's tick: every due dequeue task runs.
LobbySchedulerTick ==
  LET due == {t \in lobbyTasks : t.due = 0}
  IN /\ due # {}
     /\ rooms' = [u \in DOMAIN rooms |->
                    [rooms[u] EXCEPT !.queuedPlayers =
                       @ \ {t.characterUid : t \in {x \in due : x.roomUid = u}}]]
     /\ lobbyTasks' = lobbyTasks \ due
     /\ lastOp' = "Handler"
     /\ stagePath' = PathOf(raceInstances, raceInstances)
     /\ UNCHANGED <<sequencedId, otpVars, raceVars, usedCodes, codeReused>>
     /\ UNCHANGED <<threadVars, loginVars, loginHistVars, unitVars>>
     /\ countdownSent' = {}

\* ------------------------------------------------- RaceDirector handlers
\* A handler of client c may run: the connection is open and no earlier
\* handler of c has thrown (a throwing handler ends in the client's disconnect).
CanHandle(c) == c \in connected /\ c \notin faulted

\* The handler threw before changing anything but the instances map.
Throws(c, I1) ==
  /\ faulted' = faulted \cup {c}
  /\ raceInstances' = I1
  /\ lastOp' = "Handler"
  /\ stagePath' = PathOf(raceInstances, I1)
  /\ UNCHANGED <<roomVars, otpVars, lobbyTasks, raceClients, raceTasks, connected,
                 everConnected, raceStarts, usedCodes, codeReused>>

HandleClientConnected(c) ==
  /\ c \notin everConnected
  /\ everConnected' = everConnected \cup {c}
  /\ connected' = connected \cup {c}
  /\ raceClients' = IF c \in DOMAIN raceClients THEN raceClients
                    ELSE Put(raceClients, c, NewClientContext)
  /\ lastOp' = "Handler"
  /\ stagePath' = PathOf(raceInstances, raceInstances)
  /\ UNCHANGED <<roomVars, otpVars, lobbyTasks, raceInstances, raceTasks, faulted,
                 raceStarts, usedCodes, codeReused>>
  /\ UNCHANGED <<threadVars, loginVars, loginHistVars, unitVars>>
  /\ countdownSent' = {}

\* clientContext.isAuthenticated as HandleEnterRoom assigns it.
EnterRoomIsAuthenticated(hash, code) == AuthorizeCode(hash, code)

HandleEnterRoom(c, roomUid, code) ==
  LET characterUid == c
      hash == IdentityHash(characterUid, roomUid)
      isAuthenticated == EnterRoomIsAuthenticated(hash, code)
      doesRoomExist == RoomExists(roomUid)
      ctx0 == IF c \in DOMAIN raceClients THEN raceClients[c] ELSE NewClientContext
      ctxA == [ctx0 EXCEPT !.isAuthenticated = isAuthenticated]
  IN /\ CanHandle(c)
     /\ UNCHANGED <<threadVars, loginVars, loginHistVars, unitVars>>
     /\ countdownSent' = {}
     /\ otpCodes' = OtpAfterAuthorize(hash, code)
     /\ usedCodes' = IF isAuthenticated THEN usedCodes \cup {<<hash, code>>} ELSE usedCodes
     /\ codeReused' = IF <<hash, code>> \notin usedCodes \/ codeReused = "accepted"
                        THEN codeReused
                      ELSE IF isAuthenticated THEN "accepted" ELSE "refused"
     /\ UNCHANGED <<nextCode, sequencedId, lobbyTasks, raceTasks, connected, everConnected,
                    raceStarts>>
     /\ IF isAuthenticated /\ ~doesRoomExist
          THEN \* GetRoom throws after the context was written.
               /\ raceClients' = Put(raceClients, c, ctxA)
               /\ faulted' = faulted \cup {c}
               /\ lastOp' = "Handler"
               /\ stagePath' = PathOf(raceInstances, raceInstances)
               /\ UNCHANGED <<rooms, raceInstances>>
          ELSE LET isOvercrowded == isAuthenticated /\ ~CanAddPlayer(rooms[roomUid])
                   cancelled == ~isAuthenticated \/ ~doesRoomExist \/ isOvercrowded
                   inserted == roomUid \notin DOMAIN raceInstances
                   inst0 == IF inserted
                              THEN [NewRoomInstance EXCEPT !.masterUid = characterUid]
                              ELSE raceInstances[roomUid]
                   I1 == Put(raceInstances, roomUid, [inst0 EXCEPT !.clients = @ \cup {c}])
               IN /\ rooms' = IF isAuthenticated
                                THEN [rooms EXCEPT ![roomUid] = AddPlayer(@, characterUid)]
                                ELSE rooms
                  /\ faulted' = faulted
                  /\ IF cancelled
                       THEN /\ raceClients' = Put(raceClients, c, ctxA)
                            /\ raceInstances' = raceInstances
                            /\ lastOp' = "Handler"
                            /\ stagePath' = PathOf(raceInstances, raceInstances)
                       ELSE /\ raceClients' = Put(raceClients, c,
                                 [ctxA EXCEPT !.characterUid = characterUid, !.roomUid = roomUid])
                            /\ raceInstances' = I1
                            /\ lastOp' = "Handler"
                            /\ stagePath' = PathOf(raceInstances, I1)

\* HandleChangeRoomOptions: the fields the options bitfield selects (bit 0 the
\* name, bit 1 the player count, bit 2 the password) are replaced from the command.
HandleChangeRoomOptions(c, options, name, playerCount, password) ==
  /\ CanHandle(c)
  /\ UNCHANGED <<threadVars, loginVars, loginHistVars, unitVars>>
  /\ countdownSent' = {}
  /\ IF ~HasClientContext(c, TRUE)
       THEN Throws(c, raceInstances)
       ELSE LET roomUid == raceClients[c].roomUid
                I1 == WithInstance(raceInstances, roomUid)
            IN IF ~RoomExists(roomUid)
                 THEN Throws(c, I1)
                 ELSE /\ rooms' = [rooms EXCEPT ![roomUid] =
                           [@ EXCEPT !.name = IF 0 \in options THEN name ELSE @,
                                     !.maxPlayerCount = IF 1 \in options THEN playerCount ELSE @,
                                     !.password = IF 2 \in options THEN password ELSE @]]
                      /\ raceInstances' = I1
                      /\ lastOp' = "Handler"
                      /\ stagePath' = PathOf(raceInstances, I1)
                      /\ UNCHANGED <<sequencedId, otpVars, lobbyTasks, raceClients, raceTasks,
                                     connected, everConnected, raceStarts, faulted,
                                     usedCodes, codeReused>>

\* The characters HandleLeaveRoom may promote when client c leaves: any player
\* left in the room (the first key of an unordered map), none if nobody is left.
NextMasterChoices(c) ==
  LET ctx == raceClients[c]
  IN IF RoomExists(ctx.roomUid) /\ rooms[ctx.roomUid].players \ {ctx.characterUid} # {}
       THEN rooms[ctx.roomUid].players \ {ctx.characterUid}
       ELSE {InvalidUid}

\* The effect of HandleLeaveRoom(c) for an authenticated client c:
\* the instances, rooms and client contexts it leaves, and whether it threw.
LeaveRoomResult(c, nextMasterUid) ==
  LET ctx == raceClients[c]
      roomUid == ctx.roomUid
      I1 == WithInstance(raceInstances, roomUid)
      inst1 == [I1[roomUid] EXCEPT
                  !.racers = IF IsRacer(I1[roomUid], ctx.characterUid)
                               THEN [@ EXCEPT ![ctx.characterUid] = "Disconnected"] ELSE @,
                  !.clients = @ \ {c}]
      wasMaster == inst1.masterUid = ctx.characterUid
      inst2 == IF wasMaster /\ nextMasterUid # InvalidUid
                 THEN [inst1 EXCEPT !.masterUid = nextMasterUid] ELSE inst1
      rooms1 == [rooms EXCEPT ![roomUid] = RemovePlayer(@, ctx.characterUid)]
      left == [ctx EXCEPT !.roomUid = InvalidUid]
  IN IF roomUid = 0
       THEN [instances |-> raceInstances, rooms |-> rooms, clients |-> raceClients,
             threw |-> FALSE]
     ELSE IF ~RoomExists(roomUid)
       THEN [instances |-> Put(I1, roomUid, inst1), rooms |-> rooms,
             clients |-> raceClients, threw |-> TRUE]
     ELSE IF inst2.clients = {}
       THEN [instances |-> Drop(I1, roomUid), rooms |-> Drop(rooms1, roomUid),
             clients |-> Put(raceClients, c, left), threw |-> FALSE]
     ELSE [instances |-> Put(I1, roomUid, inst2), rooms |-> rooms1,
           clients |-> Put(raceClients, c, left), threw |-> FALSE]

HandleLeaveRoom(c) ==
  /\ CanHandle(c)
  /\ UNCHANGED <<threadVars, loginVars, loginHistVars, unitVars>>
  /\ countdownSent' = {}
  /\ IF ~HasClientContext(c, TRUE)
       THEN Throws(c, raceInstances)
       ELSE \E nextMasterUid \in NextMasterChoices(c) :
              LET res == LeaveRoomResult(c, nextMasterUid)
              IN /\ raceInstances' = res.instances
                 /\ rooms' = res.rooms
                 /\ raceClients' = res.clients
                 /\ faulted' = IF res.threw THEN faulted \cup {c} ELSE faulted
                 /\ lastOp' = "Handler"
                 /\ stagePath' = PathOf(raceInstances, res.instances)
                 /\ UNCHANGED <<sequencedId, otpVars, lobbyTasks, raceTasks, connected,
                                everConnected, raceStarts, usedCodes, codeReused>>

\* HandleClientDisconnected: an authenticated client whose room has an instance
\* leaves the room first; the context is erased unless leaving threw.
HandleClientDisconnected(c) ==
  /\ c \in connected
  /\ UNCHANGED <<threadVars, loginVars, loginHistVars, unitVars>>
  /\ countdownSent' = {}
  /\ connected' = connected \ {c}
  /\ faulted' = faulted \ {c}
  /\ LET ctx == raceClients[c]
     IN IF ctx.isAuthenticated /\ ctx.roomUid \in DOMAIN raceInstances
          THEN \E nextMasterUid \in NextMasterChoices(c) :
                 LET res == LeaveRoomResult(c, nextMasterUid)
                 IN /\ raceInstances' = res.instances
                    /\ rooms' = res.rooms
                    /\ raceClients' = IF res.threw THEN res.clients ELSE Drop(res.clients, c)
                    /\ lastOp' = "Handler"
                    /\ stagePath' = PathOf(raceInstances, res.instances)
          ELSE /\ raceClients' = Drop(raceClients, c)
               /\ lastOp' = "Handler"
               /\ stagePath' = PathOf(raceInstances, raceInstances)
               /\ UNCHANGED <<rooms, raceInstances>>
  /\ UNCHANGED <<sequencedId, otpVars, lobbyTasks, raceTasks, everConnected, raceStarts,
                 usedCodes, codeReused>>

\* A master check that lets every sender through.
AnyoneStarts(ctx, inst) == FALSE

\* The master check of HandleStartRace: the sender is not the instance's master.
NotMaster(ctx, inst) == ctx.characterUid # inst.masterUid

HandleStartRace(c) ==
  /\ CanHandle(c)
  /\ UNCHANGED <<threadVars, loginVars, loginHistVars, unitVars>>
  /\ countdownSent' = {}
  /\ raceStarts < MaxStarts
  /\ IF ~HasClientContext(c, TRUE)
       THEN Throws(c, raceInstances)
       ELSE LET ctx == raceClients[c]
                roomUid == ctx.roomUid
                I1 == WithInstance(raceInstances, roomUid)
                inst == I1[roomUid]
            IN IF NotMaster(ctx, inst) \/ ~RoomExists(roomUid)
                 THEN Throws(c, I1)
                 ELSE LET started ==
                            [inst EXCEPT
                               !.racers = [u \in rooms[roomUid].players |-> "Loading"],
                               !.stage = "Loading",
                               !.stageTimeout = LoadingTimeoutSeconds * 1000]
                          I2 == Put(I1, roomUid, started)
                      IN /\ raceInstances' = I2
                         /\ rooms' = [rooms EXCEPT ![roomUid].isPlaying = TRUE]
                         /\ raceTasks' = raceTasks \cup
                              {[clientId |-> c, due |-> RoomCountdownMs]}
                         /\ lastOp' = "Handler"
                         /\ stagePath' = PathOf(raceInstances, I2)
                         /\ raceStarts' = raceStarts + 1
                         /\ UNCHANGED <<sequencedId, otpVars, lobbyTasks, raceClients,
                                        connected, everConnected, faulted, usedCodes,
                                        codeReused>>

\* HandleLoadingComplete / HandleUserRaceFinal: the sender's racer takes the state.
SetRacerState(c, state) ==
  /\ CanHandle(c)
  /\ UNCHANGED <<threadVars, loginVars, loginHistVars, unitVars>>
  /\ countdownSent' = {}
  /\ IF ~HasClientContext(c, TRUE)
       THEN Throws(c, raceInstances)
       ELSE LET ctx == raceClients[c]
                I1 == WithInstance(raceInstances, ctx.roomUid)
                inst == I1[ctx.roomUid]
            IN IF ~IsRacer(inst, ctx.characterUid)
                 THEN Throws(c, I1)
                 ELSE LET I2 == Put(I1, ctx.roomUid,
                                    [inst EXCEPT !.racers[ctx.characterUid] = state])
                      IN /\ raceInstances' = I2
                         /\ lastOp' = "Handler"
                         /\ stagePath' = PathOf(raceInstances, I2)
                         /\ UNCHANGED <<roomVars, otpVars, lobbyTasks, raceClients, raceTasks,
                                        connected, everConnected, raceStarts, faulted, usedCodes,
                                        codeReused>>

HandleLoadingComplete(c) == SetRacerState(c, "Racing")

HandleUserRaceFinal(c) == SetRacerState(c, "Finishing")

\* ------------------------------------------------------ RaceDirector::Tick
DueRaceTasks == {t \in raceTasks : t.due = 0}

\* The rooms whose instance the due start-race-notify tasks look up; a task
\* whose client has no authenticated context is dropped.
TaskRooms ==
  {raceClients[t.clientId].roomUid :
     t \in {x \in DueRaceTasks : HasClientContext(x.clientId, TRUE)}}

AfterTasksInstances ==
  [r \in DOMAIN raceInstances \cup TaskRooms |->
     IF r \in DOMAIN raceInstances THEN raceInstances[r] ELSE NewRoomInstance]

\* _clients[raceClientId] in the task creates the contexts that are missing.
AfterTasksClients ==
  LET touched == UNION {AfterTasksInstances[r].clients : r \in TaskRooms}
  IN [c \in DOMAIN raceClients \cup touched |->
        IF c \in DOMAIN raceClients THEN raceClients[c] ELSE NewClientContext]

AllRacersIn(inst, states) == \A u \in DOMAIN inst.racers : inst.racers[u] \in states

LoadingReady(inst) ==
  /\ inst.stage = "Loading"
  /\ AllRacersIn(inst, {"Racing", "Disconnected"}) \/ inst.stageTimeout = 0

\* A Loading loop that sets the time point to now, without the time limit.
RacingStageTimeoutNow == MapTimeLimitSeconds * 0

\* The time point the Loading loop sets: now + mapBlockTemplate.timeLimit.
RacingStageTimeout == MapTimeLimitSeconds * 1000

\* The stage the Loading loop leaves, without the demotion of the racers.
KeepsRacerStates(inst) ==
  [inst EXCEPT !.stage = "Racing", !.stageTimeout = RacingStageTimeout]

\* The Loading loop on an instance that leaves Loading: racers that are not
\* Racing become Disconnected, the stage and its timeout are set.
ToRacing(inst) ==
  [inst EXCEPT
     !.racers = [u \in DOMAIN @ |-> IF @[u] = "Racing" THEN "Racing" ELSE "Disconnected"],
     !.stage = "Racing",
     !.stageTimeout = RacingStageTimeout]

\* The clients the Loading loop queues the race countdown for: every client
\* of every instance that leaves Loading.
CountdownBroadcast(I) == UNION {I[r].clients : r \in {x \in DOMAIN I : LoadingReady(I[x])}}

LoadingPass(I) == [r \in DOMAIN I |-> IF LoadingReady(I[r]) THEN ToRacing(I[r]) ELSE I[r]]

RacingReady(inst) ==
  /\ inst.stage = "Racing"
  /\ (\E u \in DOMAIN inst.racers : inst.racers[u] = "Finishing") \/ inst.stageTimeout = 0

ToFinishing(inst) ==
  [inst EXCEPT !.stage = "Finishing", !.stageTimeout = FinishingTimeoutSeconds * 1000]

\* The race-final broadcast of a timed-out race asks for the authenticated
\* context of every client of the instance, and throws when one has none.
RacingThrows(inst, C) ==
  /\ inst.stageTimeout = 0
  /\ \E c \in inst.clients : ~(c \in DOMAIN C /\ C[c].isAuthenticated)

FinishingReady(inst) ==
  /\ inst.stage = "Finishing"
  /\ AllRacersIn(inst, {"Finishing", "Disconnected"}) \/ inst.stageTimeout = 0

ToWaiting(inst) == [inst EXCEPT !.stage = "Waiting"]

\* The Racing loop and the Finishing loop of Tick, given the instances R whose
\* body ran: every ready instance, or, when the body throws for one of them,
\* that one and the ready ones visited before it.
RacingPass(I, R) == [r \in DOMAIN I |-> IF r \in R THEN ToFinishing(I[r]) ELSE I[r]]

FinishingPass(I, R) == [r \in DOMAIN I |-> IF r \in R THEN ToWaiting(I[r]) ELSE I[r]]

TickPath(I0, I1, I2, I3) ==
  [r \in DOMAIN I3 |->
     Compress(<<IF r \in DOMAIN raceInstances THEN raceInstances[r].stage ELSE "Waiting",
                I0[r].stage, I1[r].stage, I2[r].stage, I3[r].stage>>)]

Tick ==
  LET I0 == AfterTasksInstances
      C0 == AfterTasksClients
      I1 == LoadingPass(I0)
      racingReady == {r \in DOMAIN I1 : RacingReady(I1[r])}
      racingThrowers == {r \in racingReady : RacingThrows(I1[r], C0)}
  IN /\ raceTasks' = raceTasks \ DueRaceTasks
     /\ raceClients' = C0
     /\ countdownSent' = CountdownBroadcast(I0)
     /\ UNCHANGED <<threadVars, loginVars, loginHistVars, unitVars>>
     /\ UNCHANGED <<sequencedId, otpVars, lobbyTasks, connected, everConnected, raceStarts, faulted,
                    usedCodes, codeReused>>
     /\ IF racingThrowers # {}
          THEN \E t \in racingThrowers : \E S \in SUBSET (racingReady \ racingThrowers) :
                 LET I2 == RacingPass(I1, S \cup {t})
                 IN /\ raceInstances' = I2
                    /\ rooms' = rooms
                    /\ lastOp' = "Tick"
                    /\ stagePath' = TickPath(I0, I1, I2, I2)
          ELSE LET I2 == RacingPass(I1, racingReady)
                   finishingReady == {r \in DOMAIN I2 : FinishingReady(I2[r])}
                   finishingThrowers == {r \in finishingReady : ~RoomExists(r)}
               IN IF finishingThrowers # {}
                    THEN \E t \in finishingThrowers :
                         \E S \in SUBSET (finishingReady \ finishingThrowers) :
                           LET I3 == FinishingPass(I2, S \cup {t})
                           IN /\ raceInstances' = I3
                              /\ rooms' = [u \in DOMAIN rooms |->
                                   IF u \in S THEN [rooms[u] EXCEPT !.isPlaying = FALSE]
                                   ELSE rooms[u]]
                              /\ lastOp' = "Tick"
                              /\ stagePath' = TickPath(I0, I1, I2, I3)
                    ELSE LET I3 == FinishingPass(I2, finishingReady)
                         IN /\ raceInstances' = I3
                            /\ rooms' = [u \in DOMAIN rooms |->
                                 IF u \in finishingReady
                                   THEN [rooms[u] EXCEPT !.isPlaying = FALSE]
                                   ELSE rooms[u]]
                            /\ lastOp' = "Tick"
                            /\ stagePath' = TickPath(I0, I1, I2, I3)

\* -------------------------------------------------------------------- time
\* The time points still ahead: stage timeouts and the delayed tasks' due times.
PendingTimes ==
  ({raceInstances[r].stageTimeout : r \in DOMAIN raceInstances}
     \cup {t.due : t \in raceTasks} \cup {t.due : t \in lobbyTasks}) \ {0}

\* The clock advances to one of the pending time points.
AdvanceTime(d) ==
  /\ d \in PendingTimes
  /\ UNCHANGED <<threadVars, loginVars, loginHistVars, unitVars>>
  /\ countdownSent' = {}
  /\ raceInstances' = [r \in DOMAIN raceInstances |->
       [raceInstances[r] EXCEPT !.stageTimeout = Elapse(@, d)]]
  /\ raceTasks' = {[t EXCEPT !.due = Elapse(@, d)] : t \in raceTasks}
  /\ lobbyTasks' = {[t EXCEPT !.due = Elapse(@, d)] : t \in lobbyTasks}
  /\ lastOp' = "Time"
  /\ stagePath' = PathOf(raceInstances, raceInstances)
  /\ UNCHANGED <<roomVars, otpVars, raceClients, connected, everConnected, raceStarts, faulted,
                 usedCodes, codeReused>>

\* ------------------------------------------- RoomSystem, thread by thread
\* The calls of CreateRoom, GetRoom, GetRoomsSnapshot and DeleteRoom by
\* concurrent threads, one step per lock operation.  An entry of the room map
\* lives at an address; erasing the entry frees the address, and a later
\* insertion may be given it again.
ThreadIds == 1..NumThreads
Addrs == 1..NumAddrs

IdleThread == [pc |-> "idle", uid |-> 0, ref |-> 0, seen |-> {}, snap |-> {}]

ThreadsInit ==
  /\ roomNode = EmptyMap
  /\ roomMutex = [a \in Addrs |-> 0]
  /\ roomsLock = 0
  /\ threads = [t \in ThreadIds |-> IdleThread]
  /\ constructed = {}

FreeAddrs == Addrs \ {roomNode[u] : u \in DOMAIN roomNode}

\* The uids whose entry lives at address a (none when the address is free).
UidsAt(a) == {u \in DOMAIN roomNode : roomNode[u] = a}

\* The thread is inside a consumer or is taking the snapshot of a room.
InRoom(t) == threads[t].pc \in {"create_fn", "get_fn", "get_sent", "snap_room"}

\* The mutex maps the release of the mutex at a by thread t may leave: a
\* mutex the thread holds is released; releasing a mutex that was destroyed
\* and constructed again in the meantime may or may not clear it.
UnlockOutcomes(t, a) ==
  IF roomMutex[a] = t THEN {[roomMutex EXCEPT ![a] = 0]}
  ELSE {roomMutex, [roomMutex EXCEPT ![a] = 0]}

RoomSysFrame ==
  UNCHANGED <<otpVars, lobbyTasks, raceVars, histVars, loginVars, loginHistVars, unitVars>>

\* CreateRoom up to roomsLock.unlock(): the uid is drawn and the entry inserted
\* under the map lock.
CreateRoomInsert(t) ==
  /\ threads[t].pc = "idle"
  /\ roomsLock = 0
  /\ sequencedId < MaxCreates
  /\ \E a \in FreeAddrs :
       LET roomUid == sequencedId + 1
       IN /\ sequencedId' = roomUid
          /\ rooms' = Put(rooms, roomUid, NewRoom)
          /\ roomNode' = Put(roomNode, roomUid, a)
          /\ roomMutex' = [roomMutex EXCEPT ![a] = 0]
          /\ threads' = [threads EXCEPT ![t] =
                           [IdleThread EXCEPT !.pc = "create_lock", !.uid = roomUid, !.ref = a]]
  /\ UNCHANGED <<roomsLock, constructed>>
  /\ RoomSysFrame

\* std::scoped_lock lock(roomMutex) of CreateRoom.
CreateRoomLock(t) ==
  /\ threads[t].pc = "create_lock"
  /\ roomMutex[threads[t].ref] = 0
  /\ roomMutex' = [roomMutex EXCEPT ![threads[t].ref] = t]
  /\ threads' = [threads EXCEPT ![t].pc = "create_fn"]
  /\ UNCHANGED <<roomVars, roomNode, roomsLock, constructed>>
  /\ RoomSysFrame

\* consumer(room) of CreateRoom returns: the room at the referenced entry is
\* configured, and the mutex is released.
CreateRoomReturn(t) ==
  /\ threads[t].pc = "create_fn"
  /\ rooms' = [u \in DOMAIN rooms |->
                 IF u \in UidsAt(threads[t].ref) THEN [rooms[u] EXCEPT !.name = "room"]
                 ELSE rooms[u]]
  /\ constructed' = constructed \cup {threads[t].uid}
  /\ \E m \in UnlockOutcomes(t, threads[t].ref) : roomMutex' = m
  /\ threads' = [threads EXCEPT ![t] = IdleThread]
  /\ UNCHANGED <<sequencedId, roomNode, roomsLock>>
  /\ RoomSysFrame

\* GetRoom up to roomsLock.unlock(): the entry is looked up under the map lock.
GetRoomFind(t, uid) ==
  /\ threads[t].pc = "idle"
  /\ roomsLock = 0
  /\ uid \in DOMAIN roomNode
  /\ threads' = [threads EXCEPT ![t] =
                   [IdleThread EXCEPT !.pc = "get_lock", !.uid = uid, !.ref = roomNode[uid]]]
  /\ UNCHANGED <<roomVars, roomNode, roomMutex, roomsLock, constructed>>
  /\ RoomSysFrame

\* std::scoped_lock lock(roomMutex) of GetRoom.
GetRoomLock(t) ==
  /\ threads[t].pc = "get_lock"
  /\ roomMutex[threads[t].ref] = 0
  /\ roomMutex' = [roomMutex EXCEPT ![threads[t].ref] = t]
  /\ threads' = [threads EXCEPT ![t].pc = "get_fn"]
  /\ UNCHANGED <<roomVars, roomNode, roomsLock, constructed>>
  /\ RoomSysFrame

\* The consumer HandleChangeTeam passes to GetRoom queues its answer (and the
\* notifies) through the command server before it returns.
ChangeTeamQueueCommand(t) ==
  /\ threads[t].pc = "get_fn"
  /\ threads' = [threads EXCEPT ![t].pc = "get_sent"]
  /\ UNCHANGED <<roomVars, roomNode, roomMutex, roomsLock, constructed>>
  /\ RoomSysFrame

\* consumer(room) of GetRoom returns, and the mutex is released.
GetRoomReturn(t) ==
  /\ threads[t].pc \in {"get_fn", "get_sent"}
  /\ \E m \in UnlockOutcomes(t, threads[t].ref) : roomMutex' = m
  /\ threads' = [threads EXCEPT ![t] = IdleThread]
  /\ UNCHANGED <<roomVars, roomNode, roomsLock, constructed>>
  /\ RoomSysFrame

\* GetRoomsSnapshot takes the map lock.
SnapshotBegin(t) ==
  /\ threads[t].pc = "idle"
  /\ roomsLock = 0
  /\ roomsLock' = t
  /\ threads' = [threads EXCEPT ![t] = [IdleThread EXCEPT !.pc = "snap_iter"]]
  /\ UNCHANGED <<roomVars, roomNode, roomMutex, constructed>>
  /\ RoomSysFrame

\* The loop reaches an entry (in the map's order, which is any order) and
\* locks its mutex, still holding the map lock.
SnapshotLockRoom(t) ==
  /\ threads[t].pc = "snap_iter"
  /\ \E uid \in DOMAIN roomNode \ threads[t].seen :
       /\ roomMutex[roomNode[uid]] = 0
       /\ roomMutex' = [roomMutex EXCEPT ![roomNode[uid]] = t]
       /\ threads' = [threads EXCEPT ![t].pc = "snap_room", ![t].uid = uid,
                                     ![t].ref = roomNode[uid]]
  /\ UNCHANGED <<roomVars, roomNode, roomsLock, constructed>>
  /\ RoomSysFrame

\* The snapshot of the entry is appended and its mutex released.
SnapshotRoom(t) ==
  /\ threads[t].pc = "snap_room"
  /\ \E m \in UnlockOutcomes(t, threads[t].ref) : roomMutex' = m
  /\ threads' = [threads EXCEPT
       ![t].pc = "snap_iter", ![t].ref = 0,
       ![t].seen = @ \cup {threads[t].uid},
       ![t].snap = @ \cup {[uid |-> threads[t].uid,
                            constructed |-> threads[t].uid \in constructed]}]
  /\ UNCHANGED <<roomVars, roomNode, roomsLock, constructed>>
  /\ RoomSysFrame

\* The loop is over: the snapshot is returned and the map lock released.
SnapshotReturn(t) ==
  /\ threads[t].pc = "snap_iter"
  /\ DOMAIN roomNode \subseteq threads[t].seen
  /\ roomsLock' = 0
  /\ threads' = [threads EXCEPT ![t] = IdleThread]
  /\ UNCHANGED <<roomVars, roomNode, roomMutex, constructed>>
  /\ RoomSysFrame

\* DeleteRoom: the entry is found and erased without any lock; its address is
\* free from then on, whatever the other threads hold.
DeleteRoom(t, uid) ==
  /\ threads[t].pc = "idle"
  /\ uid \in DOMAIN roomNode
  /\ roomNode' = Drop(roomNode, uid)
  /\ rooms' = Drop(rooms, uid)
  /\ UNCHANGED <<sequencedId, roomMutex, roomsLock, threads, constructed>>
  /\ RoomSysFrame

\* ------------------------------------------------- lobby login pipeline
\* The user names and tokens a login frame may carry; the user records hold
\* the token "T" for every user.  "alice" has a character, "bob" has none yet.
UserNames == {"alice", "bob"}
LoginIds == {""} \cup UserNames
AuthKeys == {"T", "x"}
UserToken(userName) == "T"

UserCharacterInit == [u \in UserNames |-> IF u = "alice" THEN 1 ELSE InvalidUid]

\* The uid DataDirector::CreateCharacter gives the character of a user.
CreatedCharacterUid(userName) == IF userName = "alice" THEN 1 ELSE 2

\* LobbyNetworkHandler::ClientContext{}
NewLobbyContext == [userName |-> "", isAuthenticated |-> FALSE]

\* LobbyDirector::QueuedLogin{}
NewQueuedLogin ==
  [userName |-> "", userToken |-> "", userLoadRequested |-> FALSE,
   userCharacterLoadRequested |-> FALSE]

LoginInit ==
  /\ lobbyClients = EmptyMap
  /\ lobbyEverConnected = {}
  /\ lobbyFaulted = {}
  /\ loginSent = {}
  /\ clientLogins = EmptyMap
  /\ loginRequestQueue = <<>>
  /\ loginResponseQueue = <<>>
  /\ userInstances = {}
  /\ charactersForcedIntoCreator = {}
  /\ userCharacter = UserCharacterInit
  /\ loginTasks = <<>>
  /\ loginFrames = [c \in ClientIds |-> {}]
  /\ respEntered = <<>>
  /\ respProcessed = <<>>
  /\ tickResponses = 0
  /\ lateFrames = {}
  /\ droppedResponses = {}
  /\ removedFromQueue = {}
  /\ dupSessions = {}

InSeq(q, x) == \E i \in DOMAIN q : q[i] = x

\* std::list::remove
Remove(q, x) == SelectSeq(q, LAMBDA y : y # x)

\* user.characterUid() of the user record.
CharacterOf(userName) ==
  IF userName \in DOMAIN userCharacter THEN userCharacter[userName] ELSE InvalidUid

\* A lookup that finds a context for every client.
AnyLobbyContext(C, clientId) == TRUE

\* GetClientContext(clientId, false) of the lobby does not throw.
HasLobbyContext(C, clientId) == clientId \in DOMAIN C

\* The director's and the handler's state as one Tick passes it along.
LoginState ==
  [clients |-> lobbyClients, logins |-> clientLogins,
   requests |-> loginRequestQueue, responses |-> loginResponseQueue,
   users |-> userInstances, forced |-> charactersForcedIntoCreator,
   frames |-> loginFrames, entered |-> respEntered, processed |-> respProcessed,
   count |-> 0, late |-> lateFrames, dropped |-> droppedResponses,
   removed |-> removedFromQueue, dup |-> dupSessions, stop |-> "none"]

\* _commandServer.QueueCommand of a login-response frame.
SendFrame(S, clientId, frame) ==
  [S EXCEPT !.frames[clientId] = @ \cup {frame},
            !.late = IF clientId \in DOMAIN S.clients THEN @ ELSE @ \cup {clientId}]

AcceptLogin(S, clientId, sendToCharacterCreator) ==
  IF HasLobbyContext(S.clients, clientId)
    THEN SendFrame([S EXCEPT !.clients[clientId].isAuthenticated = TRUE], clientId,
                   IF sendToCharacterCreator THEN "CreateNicknameNotify" ELSE "LoginOK")
    ELSE [S EXCEPT !.dropped = @ \cup {clientId}]

RejectLogin(S, clientId, reason) ==
  IF HasLobbyContext(S.clients, clientId)
    THEN SendFrame(S, clientId, reason)
    ELSE [S EXCEPT !.dropped = @ \cup {clientId}]

\* _clientLogins[clientId]
WithLogin(L, clientId) ==
  IF clientId \in DOMAIN L THEN L ELSE Put(L, clientId, NewQueuedLogin)

\* Loops that go on to the next client of the queue after every client.
LoopGoesOn(outcome) == "none"

\* How a loop of Tick ends the pass that took a client off its queue: the
\* character-creator and the duplicate answers return from Tick, every other
\* outcome of the response loop and of the request loop breaks out of the loop.
LoopStop(outcome) ==
  IF outcome \in {"Creator", "Duplicated"} THEN "return" ELSE "break"

\* One pass of the response loop's body, the character load (requested on the
\* first visit and waited for) having ended loaded or not.
ResponseBody(S, charLoaded) ==
  LET clientId == Head(S.responses)
      L0 == WithLogin(S.logins, clientId)
      userName == L0[clientId].userName
      characterUid == CharacterOf(userName)
      hasCharacter == characterUid # InvalidUid
      L1 == IF hasCharacter
              THEN [L0 EXCEPT ![clientId].userCharacterLoadRequested = TRUE] ELSE L0
      forcedCharacterCreator == characterUid \in S.forced
      S1 == [S EXCEPT !.responses = Tail(@), !.logins = L1,
                      !.forced = @ \ {characterUid},
                      !.processed = Append(@, clientId), !.count = @ + 1,
                      !.dup = IF userName \in S.users /\ clientId \in DOMAIN S.clients
                                THEN @ \cup {clientId} ELSE @]
  IN IF ~hasCharacter \/ forcedCharacterCreator
       THEN [AcceptLogin(S1, clientId, TRUE) EXCEPT !.stop = LoopStop("Creator")]
     ELSE IF ~charLoaded
       THEN [RejectLogin(S1, clientId, "CancelGeneric") EXCEPT !.stop = LoopStop("Generic")]
     ELSE IF userName \in S1.users
       THEN [RejectLogin(S1, clientId, "CancelDuplicated")
               EXCEPT !.stop = LoopStop("Duplicated")]
     ELSE [AcceptLogin([S1 EXCEPT !.users = @ \cup {userName}], clientId, FALSE)
             EXCEPT !.logins = Drop(@, clientId), !.stop = LoopStop("OK")]

\* while (not _loginResponseQueue.empty()) { ... }
RECURSIVE ResponseLoop(_, _)
ResponseLoop(S, charLoaded) ==
  IF S.responses = <<>> \/ S.stop # "none" THEN S
  ELSE ResponseLoop(ResponseBody(S, charLoaded), charLoaded)

\* One pass of the request loop's body, the user load (requested on the first
\* visit and waited for) having ended loaded or not.
RequestBody(S, userLoaded, preventServerJoining) ==
  LET clientId == Head(S.requests)
      L0 == WithLogin(S.logins, clientId)
      L1 == [L0 EXCEPT ![clientId].userLoadRequested = TRUE]
      userName == L1[clientId].userName
      isAuthenticated == UserToken(userName) = L1[clientId].userToken
      S1 == [S EXCEPT !.requests = Tail(@), !.logins = L1]
  IN IF ~userLoaded
       THEN [RejectLogin(S1, clientId, "CancelGeneric") EXCEPT !.stop = LoopStop("Rejected")]
     ELSE IF ~isAuthenticated
       THEN [RejectLogin(S1, clientId, "CancelInvalidUser")
               EXCEPT !.stop = LoopStop("Rejected")]
     ELSE IF preventServerJoining
       THEN [RejectLogin(S1, clientId, "CancelDisconnectYourself")
               EXCEPT !.stop = LoopStop("Rejected")]
     ELSE [S1 EXCEPT !.responses = Append(@, clientId),
                     !.entered = Append(@, clientId),
                     !.stop = LoopStop("Queued")]

\* while (not _loginRequestQueue.empty()) { ... }
RECURSIVE RequestLoop(_, _, _)
RequestLoop(S, userLoaded, preventServerJoining) ==
  IF S.requests = <<>> \/ S.stop # "none" THEN S
  ELSE RequestLoop(RequestBody(S, userLoaded, preventServerJoining),
                   userLoaded, preventServerJoining)

\* One task of the director's scheduler.
RunLoginTask(S, task) ==
  IF task.kind = "Connect"
    THEN \* QueueClientConnect
         [S EXCEPT !.logins = WithLogin(@, task.clientId)]
  ELSE IF task.kind = "Login"
    THEN \* QueueClientLogin
         IF task.clientId \notin DOMAIN S.logins THEN S
         ELSE [S EXCEPT !.logins[task.clientId].userName = task.userName,
                        !.logins[task.clientId].userToken = task.userToken,
                        !.requests = Append(@, task.clientId)]
  ELSE \* QueueClientLogout of an authenticated client, then QueueClientDisconnect
       [S EXCEPT !.users = IF task.isAuthenticated THEN @ \ {task.userName} ELSE @,
                 !.requests = Remove(@, task.clientId),
                 !.responses = Remove(@, task.clientId),
                 !.logins = Drop(@, task.clientId),
                 !.removed = IF InSeq(S.requests, task.clientId)
                                  \/ InSeq(S.responses, task.clientId)
                               THEN @ \cup {task.clientId} ELSE @]

\* _scheduler.Tick(): the queued tasks run in the order they were queued.
RECURSIVE RunLoginTasks(_, _)
RunLoginTasks(S, tasks) ==
  IF tasks = <<>> THEN S ELSE RunLoginTasks(RunLoginTask(S, Head(tasks)), Tail(tasks))

LoginFrame ==
  UNCHANGED <<roomVars, otpVars, lobbyTasks, raceVars, histVars, threadVars, unitVars>>

\* The state a Tick or a handler leaves.
LoginStateBecomes(S) ==
  /\ lobbyClients' = S.clients
  /\ clientLogins' = S.logins
  /\ loginRequestQueue' = S.requests
  /\ loginResponseQueue' = S.responses
  /\ userInstances' = S.users
  /\ charactersForcedIntoCreator' = S.forced
  /\ loginFrames' = S.frames
  /\ respEntered' = S.entered
  /\ respProcessed' = S.processed
  /\ lateFrames' = S.late
  /\ droppedResponses' = S.dropped
  /\ removedFromQueue' = S.removed
  /\ dupSessions' = S.dup

\* LobbyDirector::Tick: the response loop, the request loop, the scheduler;
\* the returns of the response loop leave Tick before the other two.
LobbyTick ==
  \E charLoaded \in BOOLEAN, userLoaded \in BOOLEAN, preventServerJoining \in BOOLEAN :
    LET S1 == ResponseLoop(LoginState, charLoaded)
        S2 == RequestLoop([S1 EXCEPT !.stop = "none"], userLoaded, preventServerJoining)
        S3 == RunLoginTasks(S2, loginTasks)
    IN /\ IF S1.stop = "return"
            THEN LoginStateBecomes(S1) /\ loginTasks' = loginTasks
            ELSE LoginStateBecomes(S3) /\ loginTasks' = <<>>
       /\ tickResponses' = S1.count
       /\ UNCHANGED <<lobbyEverConnected, lobbyFaulted, loginSent, userCharacter>>
       /\ LoginFrame

\* A handler of lobby client c may run.
CanHandleLobby(c) == c \in DOMAIN lobbyClients /\ c \notin lobbyFaulted

LobbyClientConnected(c) ==
  /\ c \notin lobbyEverConnected
  /\ lobbyEverConnected' = lobbyEverConnected \cup {c}
  /\ lobbyClients' = IF c \in DOMAIN lobbyClients THEN lobbyClients
                     ELSE Put(lobbyClients, c, NewLobbyContext)
  /\ loginTasks' = Append(loginTasks, [kind |-> "Connect", clientId |-> c])
  /\ UNCHANGED <<lobbyFaulted, loginSent, clientLogins, loginRequestQueue,
                 loginResponseQueue, userInstances, charactersForcedIntoCreator,
                 userCharacter, loginFrames, loginHistVars>>
  /\ LoginFrame

\* HandleClientDisconnected of the lobby: the logout and disconnect task is
\* queued with the context's values, and the context erased at once.
LobbyClientDisconnected(c) ==
  /\ c \in DOMAIN lobbyClients
  /\ loginTasks' = Append(loginTasks,
       [kind |-> "Disconnect", clientId |-> c,
        isAuthenticated |-> lobbyClients[c].isAuthenticated,
        userName |-> lobbyClients[c].userName])
  /\ lobbyClients' = Drop(lobbyClients, c)
  /\ lobbyFaulted' = lobbyFaulted \ {c}
  /\ UNCHANGED <<lobbyEverConnected, loginSent, clientLogins, loginRequestQueue,
                 loginResponseQueue, userInstances, charactersForcedIntoCreator,
                 userCharacter, loginFrames, loginHistVars>>
  /\ LoginFrame

\* The version constants HandleLogin asserts, and the ones a frame may carry.
VersionConstant0 == 50

VersionConstant1 == 281

Constant1s == {VersionConstant1, VersionConstant1 - 1}

\* HandleLogin; a client sends its login frame once. The version constants are
\* only the operands of an assert: with assertions compiled out the frame is
\* handled whatever they are (with them compiled in, the process aborts there
\* and the behaviour ends before the step).
LobbyLogin(c, loginId, authKey, constant0, constant1) ==
  /\ CanHandleLobby(c)
  /\ c \notin loginSent
  /\ loginSent' = loginSent \cup {c}
  /\ IF loginId = "" \/ authKey = ""
       THEN /\ loginFrames' = [loginFrames EXCEPT ![c] = @ \cup {"CancelInvalidLoginId"}]
            /\ UNCHANGED <<lobbyClients, loginTasks>>
     ELSE IF \E o \in DOMAIN lobbyClients :
               lobbyClients[o].userName = loginId /\ lobbyClients[o].isAuthenticated
       THEN /\ loginFrames' = [loginFrames EXCEPT ![c] = @ \cup {"CancelDuplicated"}]
            /\ UNCHANGED <<lobbyClients, loginTasks>>
     ELSE /\ lobbyClients' = [lobbyClients EXCEPT ![c].userName = loginId]
          /\ loginTasks' = Append(loginTasks,
               [kind |-> "Login", clientId |-> c, userName |-> loginId,
                userToken |-> authKey])
          /\ UNCHANGED loginFrames
  /\ UNCHANGED <<lobbyEverConnected, lobbyFaulted, clientLogins, loginRequestQueue,
                 loginResponseQueue, userInstances, charactersForcedIntoCreator,
                 userCharacter, loginHistVars>>
  /\ LoginFrame

\* HandleCreateNickname: an unauthenticated sender makes GetClientContext
\* throw; a valid nickname creates the character the user lacks and is
\* answered with login-ok.
LobbyCreateNickname(c, isValidNickname) ==
  /\ CanHandleLobby(c)
  /\ IF ~lobbyClients[c].isAuthenticated
       THEN /\ lobbyFaulted' = lobbyFaulted \cup {c}
            /\ UNCHANGED <<userCharacter, loginFrames>>
     ELSE IF ~isValidNickname
       THEN /\ loginFrames' = [loginFrames EXCEPT ![c] = @ \cup {"CancelGeneric"}]
            /\ UNCHANGED <<userCharacter, lobbyFaulted>>
     ELSE LET userName == lobbyClients[c].userName
          IN /\ userCharacter' =
                  IF userCharacter[userName] = InvalidUid
                    THEN [userCharacter EXCEPT ![userName] = CreatedCharacterUid(userName)]
                    ELSE userCharacter
             /\ loginFrames' = [loginFrames EXCEPT ![c] = @ \cup {"LoginOK"}]
             /\ UNCHANGED lobbyFaulted
  /\ UNCHANGED <<lobbyClients, lobbyEverConnected, loginSent, clientLogins,
                 loginRequestQueue, loginResponseQueue, userInstances,
                 charactersForcedIntoCreator, loginTasks, loginHistVars>>
  /\ LoginFrame

\* LobbyDirector::SetCharacterForcedIntoCreator, for an existing character.
SetCharacterForcedIntoCreator(characterUid, forced) ==
  /\ \E u \in UserNames : userCharacter[u] = characterUid
  /\ characterUid # InvalidUid
  /\ charactersForcedIntoCreator' =
       IF forced THEN charactersForcedIntoCreator \cup {characterUid}
       ELSE charactersForcedIntoCreator \ {characterUid}
  /\ UNCHANGED <<lobbyClients, lobbyEverConnected, lobbyFaulted, loginSent, clientLogins,
                 loginRequestQueue, loginResponseQueue, userInstances, userCharacter,
                 loginTasks, loginFrames, loginHistVars>>
  /\ LoginFrame

\* ------------------------------------------------------------ specification
\* No function is under study on its own.
\* No race is being run.
PlayIdle ==
  /\ gameModeInfos = EmptyMap
  /\ playRoom = "Speed"
  /\ playInstance = EmptyMap
  /\ playTasks = <<>>
  /\ playNow = 0
  /\ spawnSent = {}
  /\ playCalls = 0

\* No call of Tick is followed pass by pass.
TickIdle == tickPc = "idle" /\ dataBeingLoaded = {} /\ tickPasses = 0

UnitInit == callArgs = EmptyMap /\ callResult = EmptyMap /\ PlayIdle /\ TickIdle

\* The server after construction.
ServerInit ==
  /\ sequencedId = 0
  /\ rooms = EmptyMap
  /\ otpCodes = EmptyMap
  /\ nextCode = 0
  /\ lobbyTasks = {}
  /\ raceClients = EmptyMap
  /\ raceInstances = EmptyMap
  /\ raceTasks = {}
  /\ connected = {}
  /\ everConnected = {}
  /\ faulted = {}
  /\ raceStarts = 0
  /\ lastOp = "Init"
  /\ stagePath = EmptyMap
  /\ usedCodes = {}
  /\ codeReused = "none"
  /\ lastCall = NoCall
  /\ countdownSent = {}
  /\ ThreadsInit
  /\ LoginInit

Init == ServerInit /\ UnitInit

\* The lobby and race handlers that admit players to rooms.
Next ==
  \/ /\ \E ch \in CharacterUids, n \in PlayerCounts, name \in Names, pw \in Passwords :
          LobbyMakeRoom(ch, n, name, pw)
     /\ UNCHANGED lastCall
  \/ /\ \E ch \in CharacterUids, r \in 1..MaxRooms, pw \in Passwords : LobbyEnterRoom(ch, r, pw)
     /\ UNCHANGED lastCall
  \/ /\ LobbySchedulerTick
     /\ UNCHANGED lastCall
  \/ /\ \E c \in ClientIds : HandleClientConnected(c)
     /\ UNCHANGED lastCall
  \/ /\ \E c \in ClientIds : HandleClientDisconnected(c)
     /\ UNCHANGED lastCall
  \/ /\ \E c \in ClientIds, r \in 1..MaxRooms, code \in 0..MaxCodes : HandleEnterRoom(c, r, code)
     /\ UNCHANGED lastCall
  \/ /\ \E c \in ClientIds, options \in SUBSET {0, 1, 2}, name \in Names,
           n \in PlayerCounts, pw \in Passwords :
          HandleChangeRoomOptions(c, options, name, n, pw)
     /\ UNCHANGED lastCall
  \/ /\ \E c \in ClientIds : HandleLeaveRoom(c)
     /\ UNCHANGED lastCall
  \/ /\ \E d \in PendingTimes : AdvanceTime(d)
     /\ UNCHANGED lastCall

Spec == Init /\ [][Next]_vars

\* ----------------------------------------------------- race specification
\* The ways the lobby hand-off distributes the clients over the rooms, rooms
\* numbered in the order of their first client.
RoomLayouts ==
  {f \in [ClientIds -> 1..RaceRooms] :
     /\ f[1] = 1
     /\ \A i \in ClientIds : i > 1 => \E j \in 1..(i - 1) : f[i] <= f[j] + 1}

\* The race director once the lobby has handed every client over: client i,
\* by MakeRoom (the first of a room) or EnterRoom of the lobby, got code i for
\* its room, the dequeue tasks have run, and every client has connected to the
\* race server and entered its room; the master of a room is whichever of its
\* clients entered first.
InitRace ==
  \E f \in RoomLayouts : \E master \in [{f[i] : i \in ClientIds} -> CharacterUids] :
    LET uids == {f[i] : i \in ClientIds}
        members(r) == {i \in ClientIds : f[i] = r}
    IN /\ \A r \in uids : master[r] \in members(r)
       /\ sequencedId = Cardinality(uids)
       /\ rooms = [r \in uids |->
                     [NewRoom EXCEPT !.name = "room", !.maxPlayerCount = NumClients,
                                     !.players = members(r)]]
       /\ otpCodes = EmptyMap
       /\ nextCode = NumClients
       /\ lobbyTasks = {}
       /\ raceClients = [i \in ClientIds |->
                           [characterUid |-> i, roomUid |-> f[i], isAuthenticated |-> TRUE]]
       /\ raceInstances = [r \in uids |->
                             [NewRoomInstance EXCEPT !.masterUid = master[r],
                                                     !.clients = members(r)]]
       /\ raceTasks = {}
       /\ connected = ClientIds
       /\ everConnected = ClientIds
       /\ faulted = {}
       /\ raceStarts = 0
       /\ lastOp = "Handler"
       /\ stagePath = [r \in uids |-> <<"Waiting">>]
       /\ usedCodes = {<<IdentityHash(i, f[i]), i>> : i \in ClientIds}
       /\ codeReused = "none"
       /\ lastCall = NoCall
       /\ countdownSent = {}
       /\ ThreadsInit
       /\ LoginInit
       /\ UnitInit

\* The race director's handlers, its tick and the clock.
NextRace ==
  \/ /\ \E c \in ClientIds, r \in 1..RaceRooms : HandleEnterRoom(c, r, 0)
     /\ UNCHANGED lastCall
  \/ /\ \E c \in ClientIds : HandleClientDisconnected(c)
     /\ UNCHANGED lastCall
  \/ /\ \E c \in ClientIds : HandleLeaveRoom(c)
     /\ UNCHANGED lastCall
  \/ /\ \E c \in ClientIds : HandleStartRace(c)
     /\ UNCHANGED lastCall
  \/ /\ \E c \in ClientIds : HandleLoadingComplete(c)
     /\ UNCHANGED lastCall
  \/ /\ \E c \in ClientIds : HandleUserRaceFinal(c)
     /\ UNCHANGED lastCall
  \/ /\ Tick
     /\ UNCHANGED lastCall
  \/ /\ \E d \in PendingTimes : AdvanceTime(d)
     /\ UNCHANGED lastCall

SpecRace == InitRace /\ [][NextRace]_vars

\* ------------------------------------------------ room-system specification
\* Threads calling the room system concurrently.
NextRoomSys ==
  \/ \E t \in ThreadIds : CreateRoomInsert(t)
  \/ \E t \in ThreadIds : CreateRoomLock(t)
  \/ \E t \in ThreadIds : CreateRoomReturn(t)
  \/ \E t \in ThreadIds, uid \in 1..MaxCreates : GetRoomFind(t, uid)
  \/ \E t \in ThreadIds : GetRoomLock(t)
  \/ \E t \in ThreadIds : ChangeTeamQueueCommand(t)
  \/ \E t \in ThreadIds : GetRoomReturn(t)
  \/ \E t \in ThreadIds : SnapshotBegin(t)
  \/ \E t \in ThreadIds : SnapshotLockRoom(t)
  \/ \E t \in ThreadIds : SnapshotRoom(t)
  \/ \E t \in ThreadIds : SnapshotReturn(t)
  \/ \E t \in ThreadIds, uid \in 1..MaxCreates : DeleteRoom(t, uid)

SpecRoomSys == Init /\ [][NextRoomSys]_vars

\* --------------------------------------------------- login specification
\* The lobby's connection events, login handlers and director tick.
NextLogin ==
  \/ \E c \in ClientIds : LobbyClientConnected(c)
  \/ \E c \in ClientIds : LobbyClientDisconnected(c)
  \/ \E c \in ClientIds, loginId \in LoginIds, authKey \in AuthKeys,
        constant1 \in Constant1s :
       LobbyLogin(c, loginId, authKey, VersionConstant0, constant1)
  \/ \E c \in ClientIds, isValidNickname \in BOOLEAN : LobbyCreateNickname(c, isValidNickname)
  \/ \E characterUid \in 1..NumClients, forced \in BOOLEAN :
       SetCharacterForcedIntoCreator(characterUid, forced)
  \/ LobbyTick

SpecLogin == Init /\ [][NextLogin]_vars

\* ------------------------------------------- traced handler specification
\* The context a handler finds for client c.
ContextOf(c) == IF c \in DOMAIN raceClients THEN raceClients[c] ELSE NewClientContext

\* lastCall after handler op ran for client c: the room and character of the
\* client's context when the handler began, and whether the handler threw.
Called(op, c) ==
  [op |-> op, client |-> c, roomUid |-> ContextOf(c).roomUid,
   characterUid |-> ContextOf(c).characterUid, threw |-> c \in faulted']

\* The race director's room handlers on the rooms of InitRace, each call traced.
NextCalls ==
  \/ \E c \in ClientIds, r \in 1..RaceRooms :
       HandleEnterRoom(c, r, 0) /\ lastCall' = Called("EnterRoom", c)
  \/ \E c \in ClientIds :
       HandleClientDisconnected(c) /\ lastCall' = Called("Disconnected", c)
  \/ \E c \in ClientIds : HandleLeaveRoom(c) /\ lastCall' = Called("LeaveRoom", c)
  \/ \E c \in ClientIds : HandleStartRace(c) /\ lastCall' = Called("StartRace", c)
  \/ \E c \in ClientIds, options \in SUBSET {0, 1, 2}, n \in PlayerCounts :
       HandleChangeRoomOptions(c, options, "renamed", n, "pw")
         /\ lastCall' = Called("ChangeRoomOptions", c)

SpecCalls == InitRace /\ [][NextCalls]_vars

\* ------------------------------------------------------ message header codec
\* Bitwise operations of C++ on unsigned values.
RECURSIVE BitAnd(_, _)
BitAnd(a, b) ==
  IF a = 0 \/ b = 0 THEN 0
  ELSE ((a % 2) * (b % 2)) + 2 * BitAnd(a \div 2, b \div 2)

RECURSIVE BitOr(_, _)
BitOr(a, b) ==
  IF a = 0 THEN b
  ELSE IF b = 0 THEN a
  ELSE Max(a % 2, b % 2) + 2 * BitOr(a \div 2, b \div 2)

RECURSIVE BitXor(_, _)
BitXor(a, b) ==
  IF a = 0 THEN b
  ELSE IF b = 0 THEN a
  ELSE ((a + b) % 2) + 2 * BitXor(a \div 2, b \div 2)

\* Conversion to uint16_t.  A uint32_t is kept as its two halves [hi, lo].
Low16(x) == x % 65536

\* The default buffer_size argument of encode_message_information.
BufferSize == 4092

\* encode_message_information(message_id, message_jumbo, message_data_length,
\* buffer_size): the arguments are bound in this order.
EncodeMessageInformation(message_id, message_jumbo, message_data_length, buffer_size) ==
  LET val == [hi |-> buffer_size, lo |-> message_data_length]
      \* length & 0x3FFF | length << 14
      length == [hi |-> Low16(BitOr(val.hi * 16384, val.lo \div 4)),
                 lo |-> BitOr(BitAnd(val.lo, 16383), Low16(val.lo * 16384))]
      \* val >> 4, low half
      shifted == ((val.hi % 16) * 4096) + (val.lo \div 16)
      magic == Low16(BitOr(BitOr(BitOr(BitAnd(length.lo, 15), 65408) * 256,
                                 BitAnd(shifted, 255)),
                           BitAnd(length.lo, 61440)))
      id == BitOr(BitAnd(message_jumbo, 65535), BitAnd(message_id, 65535))
  IN [hi |-> BitXor(magic, id), lo |-> magic]

\* decode_message_information(data, &id, &length) of the two-output codec:
\* section is data & 0x3FF; the id is the xor of the halves without its two
\* top bits.
DecodeMessageInformation(data) ==
  IF BitAnd(data.lo, 32768) # 0
    THEN LET section == BitAnd(data.lo, 1023)
             xorResult == BitXor(data.lo, data.hi)
         IN [ok |-> TRUE,
             id |-> BitAnd(xorResult, 65535 - BitAnd(xorResult, 49152)),
             length |-> Low16(BitOr(BitOr(BitAnd(data.lo, 255) * 16,
                                          BitAnd(section \div 256, 15)),
                                    BitAnd(section, 61440)))]
    ELSE [ok |-> FALSE, id |-> 0, length |-> 0]

\* decode_message_length(data) of the length-only codec: section is
\* data & 16383, and a header without the flag bit is returned as it is.
DecodeMessageLength(data) ==
  IF BitAnd(data.lo, 32768) # 0
    THEN LET section == BitAnd(data.lo, 16383)
         IN [hi |-> 0,
             lo |-> BitOr(BitOr(BitAnd(data.lo, 255) * 16, BitAnd(section \div 256, 15)),
                          BitAnd(section, 61440))]
    ELSE data

\* The ids, jumbo values and lengths the headers are made of: the values
\* around every bit the codec masks.
HeaderIds == {0, 1, 7, 29, 16383, 16384, 32768, 65535}

HeaderJumbos == {0, 7}

HeaderLengths == {0, 1, 15, 16, 29, 255, 256, 4095, 4096, 16383, 16384, 32767}

InitHeader ==
  /\ ServerInit
  /\ callArgs \in [id : HeaderIds, jumbo : HeaderJumbos, length : HeaderLengths]
  /\ callResult = EmptyMap
  /\ PlayIdle /\ TickIdle

\* Every variable of the server is left alone.
ServerFrame ==
  UNCHANGED <<roomVars, otpVars, lobbyTasks, raceVars, histVars, threadVars, loginVars,
              loginHistVars>>

UnitFrame == ServerFrame /\ UNCHANGED <<playVars, tickVars>>

\* The header of the drawn message is encoded.
HeaderEncode ==
  /\ DOMAIN callResult = {}
  /\ callResult' = Put(callResult, "encoded",
       EncodeMessageInformation(callArgs.id, callArgs.jumbo, callArgs.length, BufferSize))
  /\ UNCHANGED callArgs
  /\ UnitFrame

\* The receiver decodes the header, with each of the two decoders.
HeaderDecode ==
  /\ DOMAIN callResult = {"encoded"}
  /\ callResult' = Put(Put(callResult, "decoded", DecodeMessageInformation(callResult.encoded)),
                       "length", DecodeMessageLength(callResult.encoded))
  /\ UNCHANGED callArgs
  /\ UnitFrame

NextHeader == HeaderEncode \/ HeaderDecode

SpecHeader == InitHeader /\ [][NextHeader]_vars

\* ------------------------------------------------------- Room admission path
\* Characters and capacities of the rooms QueuePlayer and AddPlayer are
\* called on.
MaxCharacters == 3

MaxCapacity == 3

\* Rooms a Room object can be: nobody is queued and committed at once.
AdmissionRooms ==
  {[NewRoom EXCEPT !.maxPlayerCount = n, !.players = p, !.queuedPlayers = q] :
     <<n, p, q>> \in {x \in (0..MaxCapacity) \X (SUBSET (1..MaxCharacters))
                                             \X (SUBSET (1..MaxCharacters)) :
                        x[2] \cap x[3] = {}}}

InitAdmission ==
  /\ ServerInit
  /\ callArgs \in [room : AdmissionRooms, characterUid : 1..MaxCharacters]
  /\ callResult = EmptyMap
  /\ PlayIdle /\ TickIdle

\* Room::QueuePlayer(characterUid) with its return value.
RoomQueuePlayer ==
  /\ DOMAIN callResult = {}
  /\ callResult' = [room |-> QueuePlayer(callArgs.room, callArgs.characterUid),
                    queued |-> ~IsRoomFull(callArgs.room)]
  /\ UNCHANGED callArgs
  /\ UnitFrame

\* Room::AddPlayer(characterUid) on the same room, with its return value.
RoomAddPlayer ==
  /\ DOMAIN callResult = {"room", "queued"}
  /\ callResult' = Put([callResult EXCEPT !.room = AddPlayer(@, callArgs.characterUid)],
                       "added", CanAddPlayer(callResult.room))
  /\ UNCHANGED callArgs
  /\ UnitFrame

NextAdmission == RoomQueuePlayer \/ RoomAddPlayer

SpecAdmission == InitAdmission /\ [][NextAdmission]_vars

\* --------------------------------------------------- race tracker: the gauge
\* tracker::RaceTracker::Racer, as far as the star points and the items go
\* (magicItem 0: none held).
NewRacer ==
  [state |-> "Racing", starPointValue |-> 0, jumpComboValue |-> 0, magicItem |-> 0,
   trackedItems |-> {}]

\* The cap of Racer::jumpComboValue.
MaxJumpCombo == 99

\* Game mode tables of the course registry.  The Speed table carries the
\* values of the perfect-jump example; the tables of a mode differ in
\* starPointsMax and in the decks of items the mode uses.
SpeedInfo ==
  [starPointsMax |-> 40000, spurConsumeStarPoints |-> 40000,
   perfectJumpStarPoints |-> 1000, perfectJumpUnitStarPoints |-> 200,
   perfectJumpMaxBonusCombo |-> 5, goodJumpStarPoints |-> 500,
   usedDeckItemIds |-> {101, 102}]

LongGaugeInfo == [SpeedInfo EXCEPT !.starPointsMax = 120000]

MagicInfos ==
  {[SpeedInfo EXCEPT !.starPointsMax = m, !.usedDeckItemIds = d] :
     m \in {10000, 40000}, d \in {{101, 102}}}

\* The combo count taken without the perfectJumpMaxBonusCombo cap.
UncappedCombo(info, racer) == racer.jumpComboValue

\* min(perfectJumpMaxBonusCombo, racer.jumpComboValue)
ApplicableComboCount(info, racer) == Min(info.perfectJumpMaxBonusCombo, racer.jumpComboValue)

\* The racer after HandleHurdleClearResult with the given hurdleClearType.
HurdleClearResult(racer, info, hurdleClearType) ==
  CASE hurdleClearType = "Perfect" ->
         LET combo == [racer EXCEPT !.jumpComboValue = Min(MaxJumpCombo, @ + 1)]
             gainedStarPointsFromCombo ==
               ApplicableComboCount(info, combo) * info.perfectJumpUnitStarPoints
         IN [combo EXCEPT !.starPointValue =
               Min(@ + info.perfectJumpStarPoints + gainedStarPointsFromCombo,
                   info.starPointsMax)]
    [] hurdleClearType \in {"Good", "DoubleJumpOrGlide"} ->
         [racer EXCEPT !.jumpComboValue = 0,
                       !.starPointValue = Min(@ + info.goodJumpStarPoints, info.starPointsMax)]
    [] hurdleClearType = "Collision" -> [racer EXCEPT !.jumpComboValue = 0]
    [] OTHER -> racer

\* The racer after HandleStarPointGet / HandleStartingRate with the gain.
StarPointGet(racer, info, gainedStarPoints) ==
  [racer EXCEPT !.starPointValue = Min(@ + gainedStarPoints, info.starPointsMax)]

\* ------------------------------------------------ hurdles, call after call
MaxHurdles == 3

HurdleClearTypes == {"Perfect", "Good", "Collision"}

\* Racers the hurdle results are applied to: a fresh one, and ones near the
\* caps of the gauge and of the combo.
HurdleRacers ==
  {[NewRacer EXCEPT !.starPointValue = s, !.jumpComboValue = j] :
     s \in {0, 38000, 119000}, j \in {0, 4, 98, 99}}

InitHurdle ==
  /\ ServerInit
  /\ callArgs \in [info : {SpeedInfo, LongGaugeInfo}, racer : HurdleRacers]
  /\ callResult = [racers |-> <<callArgs.racer>>, types |-> <<>>]
  /\ PlayIdle /\ TickIdle

\* One more HurdleClearResult of the racer is handled.
HandleHurdleClearResult(hurdleClearType) ==
  /\ Len(callResult.types) < MaxHurdles
  /\ callResult' =
       [racers |-> Append(callResult.racers,
                          HurdleClearResult(callResult.racers[Len(callResult.racers)], callArgs.info,
                                            hurdleClearType)),
        types |-> Append(callResult.types, hurdleClearType)]
  /\ UNCHANGED callArgs
  /\ UnitFrame

NextHurdle == \E hurdleClearType \in HurdleClearTypes : HandleHurdleClearResult(hurdleClearType)

SpecHurdle == InitHurdle /\ [][NextHurdle]_vars

\* ------------------------------------------------------- a race being run
\* Racers (each with its own client), items of the track, handled commands
\* and clock steps of the race.
MaxPlayRacers == 2

MaxPlayItems == 1

MaxPlayCalls == 3

MaxPlayTicks == 2

\* ItemRespawnDuration of HandleUserRaceItemGet, in ms; the clock of the
\* model advances by this much.
ItemRespawnMs == 500

\* NoItemHeldBoostAmount of HandleRaceUserPos.
NoItemHeldBoostAmount == 2000

\* The star points of a boost (gold horseshoe) and of a silver horseshoe.
BoostStarPoints == 40000

SilverStarPoints == 10000

PlayRacers == 1..MaxPlayRacers

PlayItems == 1..MaxPlayItems

PlayGameModes == {"Speed", "Magic"}

\* magicItems: bolt, shield, ice wall.
MagicItems == {2, 4, 10}

\* The race has been started in the room's game mode: every racer of the
\* room is in the tracker with an empty gauge, the items of the map are in
\* place.
InitPlay ==
  /\ ServerInit
  /\ callArgs = EmptyMap /\ callResult = EmptyMap
  /\ \E magic \in MagicInfos :
       gameModeInfos = [mode \in PlayGameModes |-> IF mode = "Speed" THEN SpeedInfo ELSE magic]
  /\ playRoom \in PlayGameModes
  /\ \E deckIds \in [PlayItems -> gameModeInfos[playRoom].usedDeckItemIds],
        started \in {0, ItemRespawnMs} :
       playInstance =
         [raceGameMode |-> playRoom,
          clients |-> PlayRacers,
          raceStartTimePoint |-> started,
          racers |-> [c \in PlayRacers |-> NewRacer],
          items |-> [i \in PlayItems |-> [deckId |-> deckIds[i], respawnTimePoint |-> 0]]]
  /\ playTasks = <<>>
  /\ playNow = 0
  /\ spawnSent = {}
  /\ playCalls = 0
  /\ TickIdle

\* GetCourseGameModeInfo(raceInstance.raceGameMode)
GameModeTemplate == gameModeInfos[playInstance.raceGameMode]

\* What a handler of a command leaves alone besides the state it names.
PlayFrame(changed) ==
  /\ playCalls < MaxPlayCalls
  /\ playCalls' = playCalls + 1
  /\ ServerFrame
  /\ UNCHANGED <<callArgs, callResult, gameModeInfos, playNow, tickVars>>
  /\ "room" \in changed \/ UNCHANGED playRoom
  /\ "tasks" \in changed \/ UNCHANGED playTasks
  /\ "spawn" \in changed \/ spawnSent' = {}

SetRacer(c, racer) == playInstance' = [playInstance EXCEPT !.racers[c] = racer]

PlayStarPointGet(c, gainedStarPoints) ==
  /\ SetRacer(c, StarPointGet(playInstance.racers[c], GameModeTemplate, gainedStarPoints))
  /\ PlayFrame({})

\* HandleRequestSpur: a racer without the star points of a spur is refused.
PlayRequestSpur(c) ==
  /\ IF playInstance.racers[c].starPointValue < GameModeTemplate.spurConsumeStarPoints
       THEN UNCHANGED playInstance
       ELSE SetRacer(c, [playInstance.racers[c] EXCEPT
                           !.starPointValue = @ - GameModeTemplate.spurConsumeStarPoints])
  /\ PlayFrame({})

PlayHurdleClearResult(c, hurdleClearType) ==
  /\ SetRacer(c, HurdleClearResult(playInstance.racers[c], GameModeTemplate, hurdleClearType))
  /\ PlayFrame({})

PlayStartingRate(c, unk1, boostGained) ==
  /\ IF unk1 < 1 /\ boostGained < 1
       THEN UNCHANGED playInstance
       ELSE SetRacer(c, StarPointGet(playInstance.racers[c], GameModeTemplate, boostGained))
  /\ PlayFrame({})

\* The racer's tracked items after the item loop of HandleRaceUserPos, the
\* items of nearItems being closer than ItemSpawnDistanceThreshold.
TrackedAfterPos(racer, nearItems) ==
  LET canRespawn == {i \in PlayItems : playNow >= playInstance.items[i].respawnTimePoint}
  IN (racer.trackedItems \ (canRespawn \ nearItems)) \cup (canRespawn \cap nearItems)

\* The items HandleRaceUserPos sends the racer an item-spawn for.
SpawnedByPos(racer, nearItems) ==
  {i \in nearItems : /\ playNow >= playInstance.items[i].respawnTimePoint
                     /\ i \notin racer.trackedItems}

\* The gauge after the regeneration of HandleRaceUserPos.
RegeneratedStarPoints(racer) ==
  IF /\ playInstance.raceGameMode = "Magic"
     /\ racer.state = "Racing"
     /\ playNow >= playInstance.raceStartTimePoint
     /\ racer.magicItem = 0
     /\ racer.starPointValue < GameModeTemplate.starPointsMax
    THEN Min(GameModeTemplate.starPointsMax, racer.starPointValue + NoItemHeldBoostAmount)
    ELSE racer.starPointValue

PlayRaceUserPos(c, nearItems) ==
  LET racer == playInstance.racers[c]
  IN /\ SetRacer(c, [racer EXCEPT !.trackedItems = TrackedAfterPos(racer, nearItems),
                                  !.starPointValue = RegeneratedStarPoints(racer)])
     /\ spawnSent' = {<<c, i>> : i \in SpawnedByPos(racer, nearItems)}
     /\ PlayFrame({"spawn"})

PlayRequestMagicItem(c, gainedMagicItem) ==
  /\ IF playInstance.racers[c].magicItem # 0
       THEN UNCHANGED playInstance
       ELSE SetRacer(c, [playInstance.racers[c] EXCEPT !.starPointValue = 0,
                                                       !.magicItem = gainedMagicItem])
  /\ PlayFrame({})

\* HandleChangeRoomOptions with bit 3 of the options set.
PlayChangeRoomOptions(c, gameMode) ==
  /\ playRoom' = gameMode
  /\ UNCHANGED playInstance
  /\ PlayFrame({"room"})

\* The racer after the switch of HandleUserRaceItemGet over the game mode of
\* the room, read from the room at the time of the pickup.
RacerAfterItemGet(racer, gameMode, gameModeInfo, deckId, gainedMagicItem) ==
  CASE gameMode = "Speed" /\ deckId = 101 ->
         [racer EXCEPT !.starPointValue =
            Min(((@ \div BoostStarPoints) + 1) * BoostStarPoints, gameModeInfo.starPointsMax)]
    [] gameMode = "Speed" /\ deckId = 102 ->
         [racer EXCEPT !.starPointValue = Min(@ + SilverStarPoints, gameModeInfo.starPointsMax)]
    [] gameMode = "Magic" /\ racer.magicItem = 0 -> [racer EXCEPT !.magicItem = gainedMagicItem]
    [] OTHER -> racer

\* HandleUserRaceItemGet.  In Magic mode a racer that holds a magic item
\* makes the handler return after respawnTimePoint has been set.
PlayUserRaceItemGet(c, itemId, gainedMagicItem) ==
  LET racer == playInstance.racers[c]
      timed == [playInstance EXCEPT !.items[itemId].respawnTimePoint = playNow + ItemRespawnMs]
      picked == RacerAfterItemGet(racer, playRoom, gameModeInfos[playRoom],
                                  playInstance.items[itemId].deckId, gainedMagicItem)
  IN IF playRoom = "Magic" /\ racer.magicItem # 0
       THEN /\ playInstance' = timed
            /\ PlayFrame({})
       ELSE /\ playInstance' =
                 [timed EXCEPT !.racers =
                    [r \in PlayRacers |->
                       [(IF r = c THEN picked ELSE @[r]) EXCEPT !.trackedItems = @ \ {itemId}]]]
            /\ playTasks' = Append(playTasks, [at |-> playNow + ItemRespawnMs, itemId |-> itemId])
            /\ PlayFrame({"tasks"})

\* Scheduler::Tick: every due respawn task broadcasts its item-spawn to the
\* clients of the instance.
PlayTick ==
  LET due == {k \in DOMAIN playTasks : playTasks[k].at <= playNow}
  IN /\ due # {}
     /\ spawnSent' = {<<c, playTasks[k].itemId>> : c \in playInstance.clients, k \in due}
     /\ playTasks' = SelectSeq(playTasks, LAMBDA t : t.at > playNow)
     /\ ServerFrame
     /\ UNCHANGED <<callArgs, callResult, gameModeInfos, playRoom, playInstance, playNow,
                    playCalls, tickVars>>

PlayClock ==
  /\ playNow < MaxPlayTicks * ItemRespawnMs
  /\ playNow' = playNow + ItemRespawnMs
  /\ spawnSent' = {}
  /\ ServerFrame
  /\ UNCHANGED <<callArgs, callResult, gameModeInfos, playRoom, playInstance, playTasks,
                 playCalls, tickVars>>

NextPlay ==
  \/ \E c \in PlayRacers :
       \/ PlayStarPointGet(c, SilverStarPoints)
       \/ PlayRequestSpur(c)
       \/ \E hurdleClearType \in HurdleClearTypes : PlayHurdleClearResult(c, hurdleClearType)
       \/ \E boostGained \in {0, SilverStarPoints} : PlayStartingRate(c, 0, boostGained)
       \/ \E nearItems \in SUBSET PlayItems : PlayRaceUserPos(c, nearItems)
       \/ \E gainedMagicItem \in MagicItems : PlayRequestMagicItem(c, gainedMagicItem)
       \/ \E gameMode \in PlayGameModes : PlayChangeRoomOptions(c, gameMode)
       \/ \E itemId \in PlayItems, gainedMagicItem \in MagicItems :
            PlayUserRaceItemGet(c, itemId, gainedMagicItem)
  \/ PlayTick
  \/ PlayClock

SpecPlay == InitPlay /\ [][NextPlay]_vars

\* ------------------------------------------------------ nickname validation
\* A name is a sequence of code points, each a Hangul syllable ("hangul"), a
\* character of [A-Za-z0-9._-] ("latin") or anything else ("other", one byte
\* of UTF-8).  Names up to these numbers of letters are validated.
MaxHangulLetters == 9

MaxLatinLetters == 17

EucKrWideByteCount == 2

EucKrNarrowByteCount == 1

MinLatinLetterCount == 3

MinKoreanLetterCount == 2

\* The capacity HandleCreateNickname validates against.
NameByteCapacity == 16

\* The bytes of a Hangul syllable in UTF-8.
Utf8HangulByteCount == 3

Repeat(x, n) == [i \in 1..n |-> x]

NameInputs ==
  {Repeat("hangul", k) \o Repeat("latin", l) \o Repeat("other", o) :
     k \in 0..MaxHangulLetters, l \in 0..MaxLatinLetters, o \in 0..1}

\* The matches a regex of one character class finds in the input.
CountMatches(input, class) == Cardinality({i \in DOMAIN input : input[i] = class})

\* countRegexMatches: its UErrorCode is never initialised; when the value
\* read is a failure code the first uregex_findNext fails and the count is 0.
CountRegexMatches(input, class, statusIsFailure) ==
  IF statusIsFailure THEN 0 ELSE CountMatches(input, class)

\* utext_nativeLength of a UTF-8 text: its length in bytes.
NativeLength(input) ==
  CountMatches(input, "hangul") * Utf8HangulByteCount
    + CountMatches(input, "latin") + CountMatches(input, "other")

\* IsNameValid(input, maxStringByteCapacity); the two flags are what the
\* uninitialised status of the two counting loops reads as.
IsNameValid(input, maxStringByteCapacity, koreanStatusFails, latinStatusFails) ==
  LET hasInvalidLetters == CountMatches(input, "other") > 0
      koreanLetterCount == CountRegexMatches(input, "hangul", koreanStatusFails)
      latinLetterCount == CountRegexMatches(input, "latin", latinStatusFails)
      inputStringByteCount ==
        koreanLetterCount * EucKrWideByteCount + latinLetterCount * EucKrNarrowByteCount
      isPureKorean == latinLetterCount = 0 /\ koreanLetterCount > 0
      minLetterCount == IF isPureKorean THEN MinKoreanLetterCount ELSE MinLatinLetterCount
  IN IF input = <<>> THEN FALSE
     ELSE IF hasInvalidLetters THEN FALSE
     ELSE IF inputStringByteCount > maxStringByteCapacity THEN FALSE
     ELSE IF NativeLength(input) < minLetterCount THEN FALSE
     ELSE TRUE

InitName ==
  /\ ServerInit
  /\ callArgs \in [input : NameInputs, maxStringByteCapacity : {NameByteCapacity}]
  /\ callResult = EmptyMap
  /\ PlayIdle /\ TickIdle

\* IsNameValid is called on the name.
ValidateName ==
  /\ DOMAIN callResult = {}
  /\ \E koreanStatusFails \in BOOLEAN, latinStatusFails \in BOOLEAN :
       callResult' = [valid |-> IsNameValid(callArgs.input, callArgs.maxStringByteCapacity,
                                            koreanStatusFails, latinStatusFails),
                      statusRead |-> koreanStatusFails \/ latinStatusFails]
  /\ UNCHANGED callArgs
  /\ UnitFrame

NextName == ValidateName

SpecName == InitName /\ [][NextName]_vars

\* ------------------------------------------- LobbyDirector::Tick, pass by pass
\* Passes of the loops of one call of Tick that are told apart.
MaxTickPasses == 2

TickFrame ==
  /\ UNCHANGED <<roomVars, otpVars, lobbyTasks, raceVars, histVars, threadVars, callArgs,
                 callResult, playVars>>
  /\ UNCHANGED <<lobbyEverConnected, lobbyFaulted, loginSent, userCharacter>>

\* The loop goes round once more (continue): the condition of the while is
\* tested again in the same call.
NextPass(S) ==
  /\ LoginStateBecomes(S)
  /\ tickPasses' = Min(tickPasses + 1, MaxTickPasses)
  /\ UNCHANGED <<tickPc, loginTasks, tickResponses>>

\* The main loop of the server calls Tick.
TickBegin ==
  /\ tickPc = "idle"
  /\ tickPc' = "responses"
  /\ tickPasses' = 0
  /\ UNCHANGED <<dataBeingLoaded, loginVars, loginHistVars>>
  /\ TickFrame

\* One pass of while (not _loginResponseQueue.empty()).
TickResponsePass ==
  /\ tickPc = "responses"
  /\ IF loginResponseQueue = <<>>
       THEN /\ tickPc' = "requests"
            /\ UNCHANGED <<dataBeingLoaded, tickPasses, loginVars, loginHistVars>>
       ELSE LET clientId == Head(loginResponseQueue)
                L0 == WithLogin(clientLogins, clientId)
                userName == L0[clientId].userName
                hasCharacter == CharacterOf(userName) # InvalidUid
            IN IF L0[clientId].userCharacterLoadRequested /\ userName \in dataBeingLoaded
                 THEN \* AreDataBeingLoaded: continue
                      /\ NextPass([LoginState EXCEPT !.logins = L0])
                      /\ UNCHANGED dataBeingLoaded
               ELSE IF hasCharacter /\ ~L0[clientId].userCharacterLoadRequested
                 THEN \* RequestLoadCharacterData: continue
                      /\ NextPass([LoginState EXCEPT !.logins =
                                     [L0 EXCEPT ![clientId].userCharacterLoadRequested = TRUE]])
                      /\ dataBeingLoaded' = dataBeingLoaded \cup {userName}
               ELSE \E charLoaded \in BOOLEAN :
                      LET S == ResponseBody(LoginState, charLoaded)
                      IN /\ LoginStateBecomes(S)
                         /\ tickPc' = IF S.stop = "return" THEN "idle" ELSE "requests"
                         /\ tickResponses' = S.count
                         /\ UNCHANGED <<dataBeingLoaded, tickPasses, loginTasks>>
  /\ TickFrame

\* One pass of while (not _loginRequestQueue.empty()).
TickRequestPass ==
  /\ tickPc = "requests"
  /\ IF loginRequestQueue = <<>>
       THEN /\ tickPc' = "scheduler"
            /\ UNCHANGED <<dataBeingLoaded, tickPasses, loginVars, loginHistVars>>
       ELSE LET clientId == Head(loginRequestQueue)
                L0 == WithLogin(clientLogins, clientId)
                userName == L0[clientId].userName
            IN IF ~L0[clientId].userLoadRequested
                 THEN \* RequestLoadUserData: continue
                      /\ NextPass([LoginState EXCEPT !.logins =
                                     [L0 EXCEPT ![clientId].userLoadRequested = TRUE]])
                      /\ dataBeingLoaded' = dataBeingLoaded \cup {userName}
               ELSE IF userName \in dataBeingLoaded
                 THEN \* AreDataBeingLoaded: continue
                      /\ NextPass([LoginState EXCEPT !.logins = L0])
                      /\ UNCHANGED dataBeingLoaded
               ELSE \E userLoaded \in BOOLEAN, preventServerJoining \in BOOLEAN :
                      /\ LoginStateBecomes(RequestBody(LoginState, userLoaded,
                                                       preventServerJoining))
                      /\ tickPc' = "scheduler"
                      /\ UNCHANGED <<dataBeingLoaded, tickPasses, loginTasks, tickResponses>>
  /\ TickFrame

\* _scheduler.Tick() at the end of Tick.
TickScheduler ==
  /\ tickPc = "scheduler"
  /\ LoginStateBecomes(RunLoginTasks(LoginState, loginTasks))
  /\ loginTasks' = <<>>
  /\ tickPc' = "idle"
  /\ UNCHANGED <<dataBeingLoaded, tickPasses, tickResponses>>
  /\ TickFrame

\* The data director finishes the load of a user's records.
LoadCompletes(userName) ==
  /\ userName \in dataBeingLoaded
  /\ dataBeingLoaded' = dataBeingLoaded \ {userName}
  /\ UNCHANGED <<tickPc, tickPasses, loginVars, loginHistVars>>
  /\ TickFrame

TickSteps == TickBegin \/ TickResponsePass \/ TickRequestPass \/ TickScheduler

NextTick ==
  \/ \E c \in ClientIds : LobbyClientConnected(c)
  \/ \E c \in ClientIds, loginId \in UserNames :
       LobbyLogin(c, loginId, "T", VersionConstant0, VersionConstant1)
  \/ TickSteps
  \/ \E userName \in LoginIds : LoadCompletes(userName)

SpecTick == Init /\ [][NextTick]_vars

\* The main loop keeps running Tick; nothing makes a load complete.
SpecTickFair == SpecTick /\ WF_vars(TickSteps)

\* ------------------------------------------- HandleStartRace: the race's map
AllMapsCourseId == 10000

NewMapsCourseId == 10001

HotMapsCourseId == 10002

\* raceMapBlockId when the game mode's map pool is empty.
FallbackMapBlockId == 1

\* Map blocks of the registry (ids apart from the fallback's), the levels
\* they may require and the master may have.
MaxMapBlocks == 2

MaxLevel == 2

MapBlockIds == 2..(MaxMapBlocks + 1)

\* The values of a read past the end of an empty std::vector<uint32_t>.
StrayMapBlockIds == MapBlockIds \cup {0, FallbackMapBlockId}

\* filteredMaps: the maps of the pool the master's level suffices for.
FilteredMaps(mapPool, requiredLevel, masterLevel) ==
  {mapBlockId \in mapPool : requiredLevel[mapBlockId] <= masterLevel}

\* The values HandleStartRace can leave in raceInstance.raceMapBlockId.
\* filteredMaps[distribution(rd)] with an empty filteredMaps is a
\* distribution over 0..-1 and a read outside the vector.
RaceMapBlockIds(roomSelectedCourses, mapPool, requiredLevel, masterLevel) ==
  IF roomSelectedCourses \in {AllMapsCourseId, NewMapsCourseId, HotMapsCourseId}
    THEN IF mapPool # {}
           THEN IF FilteredMaps(mapPool, requiredLevel, masterLevel) # {}
                  THEN FilteredMaps(mapPool, requiredLevel, masterLevel)
                  ELSE StrayMapBlockIds
           ELSE {FallbackMapBlockId}
    ELSE {roomSelectedCourses}

InitCourse ==
  /\ ServerInit
  /\ callArgs \in [roomSelectedCourses : {AllMapsCourseId, NewMapsCourseId, HotMapsCourseId}
                                           \cup MapBlockIds,
                   mapPool : SUBSET MapBlockIds,
                   requiredLevel : [MapBlockIds -> 1..MaxLevel],
                   masterLevel : 0..MaxLevel]
  /\ callResult = EmptyMap
  /\ PlayIdle /\ TickIdle

\* The course selection of HandleStartRace; the handler may also be ended by
\* the read outside the vector.
SelectRaceMap ==
  /\ DOMAIN callResult = {}
  /\ LET pseudo == callArgs.roomSelectedCourses
                     \in {AllMapsCourseId, NewMapsCourseId, HotMapsCourseId}
         pickedFromEmpty ==
           /\ pseudo /\ callArgs.mapPool # {}
           /\ FilteredMaps(callArgs.mapPool, callArgs.requiredLevel, callArgs.masterLevel) = {}
     IN \/ \E id \in RaceMapBlockIds(callArgs.roomSelectedCourses, callArgs.mapPool,
                                     callArgs.requiredLevel, callArgs.masterLevel) :
             callResult' = [raceMapBlockId |-> id, pickedFromEmpty |-> pickedFromEmpty,
                            crashed |-> FALSE]
        \/ /\ pickedFromEmpty
           /\ callResult' = [raceMapBlockId |-> 0, pickedFromEmpty |-> TRUE, crashed |-> TRUE]
  /\ UNCHANGED callArgs
  /\ UnitFrame

NextCourse == SelectRaceMap

SpecCourse == InitCourse /\ [][NextCourse]_vars

\* -------------------------------------- HandleStartRace: the room's snapshot
\* Room::GameMode and Room::TeamMode by their values (0: the value of a
\* default Details): the game modes MakeRoom and ChangeRoomOptions can store,
\* Speed = 1, Magic = 2 and Tutorial = 6, and the team modes Solo = 1, Team = 2.
RoomGameModes == {0, 1, 2, 6}

RoomTeamModes == {0, 1, 2}

\* Mission ids a MakeRoom command carries, and ChangeRoomOptions commands
\* handled before and after the StartRace.
MaxMissionId == 2

MaxOptionChanges == 2

\* static_cast between the enumerations keeps the value.
StaticCast(value) == value

\* The RoomInstance _raceInstances[roomUid] creates, as far as the snapshot goes.
NewSnapshotInstance == [raceGameMode |-> 0, raceTeamMode |-> 0, raceMissionId |-> 0]

\* The consumer HandleStartRace passes to GetRoom.
SnapshotOfRoom(raceInstance, details) ==
  [raceInstance EXCEPT !.raceGameMode = StaticCast(details.gameMode),
                       !.raceTeamMode = StaticCast(details.gameMode),
                       !.raceMissionId = details.missionId]

InitSnapshot ==
  /\ ServerInit
  /\ callArgs \in [gameMode : RoomGameModes, teamMode : RoomTeamModes,
                   missionId : 0..MaxMissionId, senderIsMaster : BOOLEAN]
  /\ callResult = [details |-> [gameMode |-> callArgs.gameMode, teamMode |-> callArgs.teamMode,
                                missionId |-> callArgs.missionId],
                   raceInstance |-> NewSnapshotInstance,
                   started |-> FALSE, threw |-> FALSE, atCommand |-> <<>>, changes |-> 0]
  /\ PlayIdle /\ TickIdle

\* HandleChangeRoomOptions with bit 3 of the options set: a game mode the
\* switch knows replaces the room's, any other is logged.
SnapshotChangeRoomOptions(gameMode) ==
  /\ callResult.changes < MaxOptionChanges
  /\ ~callResult.threw
  /\ callResult' = [callResult EXCEPT
                      !.details.gameMode = IF gameMode \in {1, 2, 6} THEN gameMode ELSE @,
                      !.changes = @ + 1]
  /\ UNCHANGED callArgs
  /\ UnitFrame

\* HandleStartRace up to the end of the consumer: a sender that is not the
\* master makes the handler throw before the room is read.
SnapshotStartRace ==
  /\ ~callResult.started /\ ~callResult.threw
  /\ callResult' =
       IF ~callArgs.senderIsMaster THEN [callResult EXCEPT !.threw = TRUE]
       ELSE [callResult EXCEPT
               !.raceInstance = SnapshotOfRoom(@, callResult.details),
               !.started = TRUE,
               !.atCommand = <<callResult.details>>]
  /\ UNCHANGED callArgs
  /\ UnitFrame

NextSnapshot ==
  \/ \E gameMode \in RoomGameModes \cup {3} : SnapshotChangeRoomOptions(gameMode)
  \/ SnapshotStartRace

SpecSnapshot == InitSnapshot /\ [][NextSnapshot]_vars

\* ------------------------------------- RaceDirector::Tick: the race result
\* Racers of the race whose result is built, and the course times their
\* clients report.
MaxResultRacers == 3

MaxCourseTime == 2

\* std::numeric_limits<uint32_t>::max(): the default of Racer::courseTime and
\* the key of a disconnected racer, above every reported course time.
NoCourseTime == MaxCourseTime + 1

\* The key the first loop gives a racer in the scoreboard.
ScoreKey(racer) == IF racer.state # "Disconnected" THEN racer.courseTime ELSE NoCourseTime

\* std::map<uint32_t, data::Uid> scoreboard after the first loop: the racers
\* are visited by ascending uid, and try_emplace inserts nothing when the key
\* is in the map.
Scoreboard(racers) ==
  [courseTime \in {ScoreKey(racers[u]) : u \in DOMAIN racers} |->
     CHOOSE u \in DOMAIN racers :
       /\ ScoreKey(racers[u]) = courseTime
       /\ \A v \in DOMAIN racers : ScoreKey(racers[v]) = courseTime => u <= v]

\* raceResult.scores: one entry for every element of the scoreboard, by
\* ascending key.
RECURSIVE ScoresOf(_, _, _)
ScoresOf(racers, scoreboard, keys) ==
  IF keys = {} THEN <<>>
  ELSE LET courseTime == CHOOSE k \in keys : \A j \in keys : k <= j
           characterUid == scoreboard[courseTime]
       IN <<[uid |-> characterUid, courseTime |-> courseTime,
             connected |-> racers[characterUid].state # "Disconnected"]>>
          \o ScoresOf(racers, scoreboard, keys \ {courseTime})

RaceResultScores(racers) ==
  ScoresOf(racers, Scoreboard(racers), DOMAIN Scoreboard(racers))

\* The race has timed out with every racer still racing: the instance is in
\* Finishing and nobody has reported a course time.
InitResult ==
  /\ ServerInit
  /\ callArgs = EmptyMap
  /\ callResult = [stage |-> "Finishing",
                   racers |-> [u \in 1..MaxResultRacers |->
                                 [state |-> "Racing", courseTime |-> NoCourseTime]],
                   clients |-> 1..MaxResultRacers,
                   scores |-> <<>>]
  /\ PlayIdle /\ TickIdle

\* HandleUserRaceFinal of the client of racer u.
ResultUserRaceFinal(u, courseTime) ==
  /\ callResult.stage = "Finishing"
  /\ u \in callResult.clients
  /\ callResult' = [callResult EXCEPT !.racers[u] =
                      [state |-> "Finishing", courseTime |-> courseTime]]
  /\ UNCHANGED callArgs
  /\ UnitFrame

\* HandleLeaveRoom of the client of racer u: the racer stays in the tracker.
ResultLeaveRoom(u) ==
  /\ callResult.stage = "Finishing"
  /\ u \in callResult.clients
  /\ callResult' = [callResult EXCEPT !.racers[u].state = "Disconnected",
                                      !.clients = @ \ {u}]
  /\ UNCHANGED callArgs
  /\ UnitFrame

\* The Finishing loop of Tick on the instance.
ResultTick(finishTimeoutReached) ==
  /\ callResult.stage = "Finishing"
  /\ \/ \A u \in DOMAIN callResult.racers :
          callResult.racers[u].state \in {"Finishing", "Disconnected"}
     \/ finishTimeoutReached
  /\ callResult' = [callResult EXCEPT !.scores = RaceResultScores(callResult.racers),
                                      !.stage = "Waiting"]
  /\ UNCHANGED callArgs
  /\ UnitFrame

NextResult ==
  \/ \E u \in 1..MaxResultRacers :
       \/ \E courseTime \in 1..MaxCourseTime : ResultUserRaceFinal(u, courseTime)
       \/ ResultLeaveRoom(u)
  \/ \E finishTimeoutReached \in BOOLEAN : ResultTick(finishTimeoutReached)

SpecResult == InitResult /\ [][NextResult]_vars

\* ------------------------------------ answers of the lobby's room handlers
\* HandleEnterRoom of the lobby answers enter-room-cancel: the room is missing
\* (CR_INVALID_ROOM), the password is wrong (CR_BAD_PASSWORD) or the room is
\* full (CR_CROWDED_ROOM).
EnterRoomCancelled(roomUid, password) ==
  \/ ~RoomExists(roomUid)
  \/ rooms[roomUid].password # "" /\ rooms[roomUid].password # password
  \/ IsRoomFull(rooms[roomUid])

\* HandleMakeRoom answers make-room-cancel: the consumer returned before it
\* set createdRoomUid.
MakeRoomCancelled(playerCount, name) == name = "" /\ playerCount # 1

\* --------------------------------------- the hand-off, with the server's ticks
\* The schedulers tick and time passes, whatever the clients do or fail to do.
SpecFair ==
  /\ Spec
  /\ WF_vars(LobbySchedulerTick /\ UNCHANGED lastCall)
  /\ WF_vars((\E d \in PendingTimes : AdvanceTime(d)) /\ UNCHANGED lastCall)

\* ------------------------------------------------------------- properties
StageSuccessor(a, b) ==
  \/ a = "Waiting" /\ b = "Loading"
  \/ a = "Loading" /\ b = "Racing"
  \/ a = "Racing" /\ b = "Finishing"
  \/ a = "Finishing" /\ b = "Waiting"

\* Every stage change on the path is a step to the next stage of the cycle.
SuccessorPath(path) ==
  \A i \in 1..(Len(path) - 1) : StageSuccessor(path[i], path[i + 1])

\* C1: the stages of every race instance follow the cycle Waiting, Loading,
\* Racing, Finishing, Waiting: whatever operation runs, each stage change it
\* makes is one of Waiting->Loading, Loading->Racing, Racing->Finishing,
\* Finishing->Waiting.
C1_StageCycle == \A r \in DOMAIN stagePath : SuccessorPath(stagePath[r])

\* C2: in every room the players and the queued players together never
\* exceed the room's maximal player count.
C2_RoomCapacity ==
  \A r \in DOMAIN rooms :
    Cardinality(rooms[r].players) + Cardinality(rooms[r].queuedPlayers)
      <= rooms[r].maxPlayerCount

\* C8: AuthorizeCode accepts a granted (hash, code) pair at most once, so a
\* code admits at most one race EnterRoom.
C8_CodeSingleUse == codeReused # "accepted"

\* A pair that had been accepted was presented again, and refused.
C8_ReplayRefused == codeReused = "refused" /\ usedCodes # {}

\* C9: within one Tick an instance makes at most one stage transition, and
\* it is a step to the next stage.
C9_OneTransitionPerTick ==
  lastOp = "Tick" =>
    \A r \in DOMAIN stagePath : Len(stagePath[r]) <= 2 /\ SuccessorPath(stagePath[r])

\* C9, amended: within one Tick every stage change of an instance is a step to
\* the next stage, and an instance changes stage at most once, except that a
\* Racing instance may pass through Finishing to Waiting.
C9_TickTransitions ==
  lastOp = "Tick" =>
    \A r \in DOMAIN stagePath :
      /\ SuccessorPath(stagePath[r])
      /\ Len(stagePath[r]) <= 2 \/ stagePath[r] = <<"Racing", "Finishing", "Waiting">>

\* A Tick has just taken an instance from Racing through Finishing to Waiting.
C9_DoubleTransition ==
  /\ lastOp = "Tick"
  /\ \E r \in DOMAIN stagePath : stagePath[r] = <<"Racing", "Finishing", "Waiting">>

\* C10: after a Tick no instance is in Loading, Racing or Finishing with its
\* stage timeout reached: the Tick that follows the timeout moves it out.
C10_TimeoutLeavesStage ==
  lastOp = "Tick" =>
    \A r \in DOMAIN raceInstances :
      raceInstances[r].stage # "Waiting" => raceInstances[r].stageTimeout > 0

\* C3: no snapshot of GetRoomsSnapshot contains a room whose CreateRoom had
\* not yet returned from its consumer when the room was snapshotted.
C3_SnapshotConstructed ==
  \A t \in ThreadIds : \A e \in threads[t].snap : e.constructed

\* C4: no two threads are at the same time inside a consumer of CreateRoom or
\* GetRoom, or inside the snapshotting of a room, on the same room entry.
C4_ExclusiveRoomAccess ==
  \A t1 \in ThreadIds : \A t2 \in ThreadIds \ {t1} :
    InRoom(t1) /\ InRoom(t2) => threads[t1].ref # threads[t2].ref

\* The place of x in the sequence q.
Pos(q, x) == CHOOSE i \in DOMAIN q : q[i] = x

\* C5: the response loop answers the clients in the order in which they
\* entered the response queue, and one Tick produces at most one answer of
\* the response loop.
C5_ResponseOrder ==
  /\ \A i \in DOMAIN respProcessed : InSeq(respEntered, respProcessed[i])
  /\ \A i \in DOMAIN respProcessed : \A j \in DOMAIN respProcessed :
       i < j => Pos(respEntered, respProcessed[i]) < Pos(respEntered, respProcessed[j])
  /\ tickResponses <= 1

\* Two clients have been answered by the response loop, the second by the
\* last Tick.
C5_TwoAnswered == Len(respProcessed) >= 2 /\ tickResponses = 1

\* C6: a client that has disconnected, whether or not its QueueClientDisconnect
\* task has run yet and taken it out of the login queues, is sent no
\* login-response frame any more.
C6_NoFrameAfterDisconnect ==
  \A c \in lobbyEverConnected \ DOMAIN lobbyClients : c \notin lateFrames

\* A disconnected client was taken out of a login queue by its task, and the
\* answer to a disconnected client that a Tick reached first was dropped.
C6_RemovedFromQueue ==
  /\ removedFromQueue # {}
  /\ droppedResponses # {}
  /\ removedFromQueue \cup droppedResponses \subseteq lobbyEverConnected \ DOMAIN lobbyClients

C11_OnlyMasterStarts ==
  [][\A c \in ClientIds :
       (/\ HasClientContext(c, TRUE)
        /\ raceClients[c].characterUid #
             WithInstance(raceInstances, raceClients[c].roomUid)[raceClients[c].roomUid].masterUid
        /\ lastCall' = Called("StartRace", c)
        /\ HandleStartRace(c))
       => /\ rooms' = rooms
          /\ \A r \in DOMAIN raceInstances :
               r \in DOMAIN raceInstances' /\ raceInstances'[r] = raceInstances[r]]_vars

\* A StartRace of a non-master in a room that has a master was just refused.
C11_NonMasterRefused ==
  /\ lastCall.op = "StartRace"
  /\ lastCall.threw
  /\ lastCall.roomUid \in DOMAIN rooms \cap DOMAIN raceInstances
  /\ raceInstances[lastCall.roomUid].masterUid \notin {InvalidUid, lastCall.characterUid}
  /\ lastCall.client \in raceInstances[lastCall.roomUid].clients

\* C12: a ChangeRoomOptions from an authenticated client whose character is
\* not the master of its room's instance leaves every room's details unchanged.
C12_OnlyMasterChangesOptions ==
  [][\A c \in ClientIds :
       (/\ HasClientContext(c, TRUE)
        /\ raceClients[c].roomUid \in DOMAIN raceInstances
        /\ raceClients[c].characterUid # raceInstances[raceClients[c].roomUid].masterUid
        /\ lastCall' = Called("ChangeRoomOptions", c))
       => rooms' = rooms]_vars

\* C13: an EnterRoom of the race server whose one-time password is not
\* authorized, whose room is gone or whose room is full is answered with
\* enter-room-cancel (the handler returns by its cancel branch, it does not
\* throw), and the client is added to no room's players and to no race
\* instance's clients.
C13_EnterRoomRejects ==
  [][\A c \in ClientIds, r \in 1..MaxRooms, code \in 0..MaxCodes :
       (/\ \/ ~AuthorizeCode(IdentityHash(c, r), code)
           \/ ~RoomExists(r)
           \/ ~CanAddPlayer(rooms[r])
        /\ HandleEnterRoom(c, r, code))
       => /\ c \notin faulted'
          /\ \A u \in DOMAIN rooms' :
               u \in DOMAIN rooms /\ rooms'[u].players = rooms[u].players
          /\ \A u \in DOMAIN raceInstances' :
               c \in raceInstances'[u].clients
                 => u \in DOMAIN raceInstances /\ c \in raceInstances[u].clients]_vars

\* C14: a delayed task that fires after its room was deleted is dropped: when
\* every room has been deleted, a Tick that runs due start-race-notify tasks
\* creates and removes no race instance, changes no instance and no room.
C14_LateTaskDropped ==
  [][(lastOp' = "Tick" /\ DueRaceTasks # {} /\ rooms = EmptyMap)
       => /\ rooms' = rooms
          /\ DOMAIN raceInstances' = DOMAIN raceInstances
          /\ \A r \in DOMAIN raceInstances : raceInstances'[r] = raceInstances[r]]_vars

\* C15: when the last client of a race instance leaves or disconnects, the
\* instance is removed and its room deleted; and no race instance that has had
\* clients (one created by EnterRoom, so with a master) has an empty client set.
C15_LastClientRemovesInstance ==
  /\ [](\A r \in DOMAIN raceInstances :
          raceInstances[r].masterUid # InvalidUid => raceInstances[r].clients # {})
  /\ [][\A c \in ClientIds :
          (/\ lastCall' \in {Called("LeaveRoom", c), Called("Disconnected", c)}
           /\ c \in DOMAIN raceClients
           /\ raceClients[c].roomUid \in DOMAIN raceInstances
           /\ raceInstances[raceClients[c].roomUid].clients = {c})
          => /\ raceClients[c].roomUid \notin DOMAIN raceInstances'
             /\ raceClients[c].roomUid \notin DOMAIN rooms']_vars

\* C16: when the client of an instance's master leaves or disconnects while
\* the room has at least one other player, the instance's masterUid becomes the
\* uid of one of the players that remain; it does not stay the departed one's.
C16_MasterHandedOver ==
  [][\A c \in ClientIds :
       (/\ lastCall' \in {Called("LeaveRoom", c), Called("Disconnected", c)}
        /\ c \in DOMAIN raceClients
        /\ raceClients[c].roomUid \in DOMAIN raceInstances \cap DOMAIN rooms
        /\ c \in raceInstances[raceClients[c].roomUid].clients
        /\ raceInstances[raceClients[c].roomUid].masterUid = raceClients[c].characterUid
        /\ rooms[raceClients[c].roomUid].players \ {raceClients[c].characterUid} # {})
       => /\ raceClients[c].roomUid \in DOMAIN raceInstances'
          /\ raceInstances'[raceClients[c].roomUid].masterUid \in
               rooms[raceClients[c].roomUid].players \ {raceClients[c].characterUid}]_vars

\* C17: after a Tick in which an instance went from Loading to Racing, every
\* racer of the instance is Racing or Disconnected, and the Tick queued the
\* race countdown for every client of the instance.
C17_LoadingLeftClean ==
  lastOp = "Tick" =>
    \A r \in DOMAIN raceInstances :
      (\E i \in 1..(Len(stagePath[r]) - 1) :
         stagePath[r][i] = "Loading" /\ stagePath[r][i + 1] = "Racing")
      => /\ AllRacersIn(raceInstances[r], {"Racing", "Disconnected"})
         /\ raceInstances[r].clients \subseteq countdownSent

\* A Tick took an instance out of Loading by the timeout: a racer whose
\* client is still in the instance was demoted, beside one that is Racing.
C17_DemotedAtTimeout ==
  /\ lastOp = "Tick"
  /\ \E r \in DOMAIN raceInstances :
       /\ stagePath[r] = <<"Loading", "Racing">>
       /\ \E u, v \in DOMAIN raceInstances[r].racers :
            /\ raceInstances[r].racers[u] = "Disconnected"
            /\ raceInstances[r].racers[v] = "Racing"
            /\ u \in raceInstances[r].clients
       /\ raceInstances[r].clients # {}
       /\ raceInstances[r].clients \subseteq countdownSent

\* C18: a login frame whose version constants are not 50 and 281 is answered
\* with login-cancel-invalid-version, and no login of its client is queued.
C18_InvalidVersionRejected ==
  [][\A c \in ClientIds, loginId \in LoginIds, authKey \in AuthKeys,
        constant1 \in Constant1s :
       (/\ constant1 # VersionConstant1
        /\ LobbyLogin(c, loginId, authKey, VersionConstant0, constant1))
       => /\ "CancelInvalidVersion" \in loginFrames'[c]
          /\ loginTasks' = loginTasks
          /\ ~InSeq(loginRequestQueue', c)]_vars

\* C19: no thread holds the lock of the room map and the mutex of a room
\* entry at the same time.
C19_NoNestedLocks ==
  \A t \in ThreadIds : ~(roomsLock = t /\ \E a \in Addrs : roomMutex[a] = t)

\* C20: no thread has queued an outbound command while it holds the mutex of
\* a room entry.
C20_NoSendUnderRoomLock ==
  \A t \in ThreadIds :
    threads[t].pc = "get_sent" => ~(\E a \in Addrs : roomMutex[a] = t)

\* C21: for every message id and every payload length up to 0x7FFF, decoding
\* the header encode_message_information(id, 0, length) made succeeds and
\* returns the id and the length.
C21_HeaderRoundTrip ==
  (callArgs.jumbo = 0 /\ "decoded" \in DOMAIN callResult) =>
    /\ callResult.decoded = [ok |-> TRUE, id |-> callArgs.id, length |-> callArgs.length]
    /\ callResult.length = [hi |-> 0, lo |-> callArgs.length]

\* C22: encode_message_information(29, 7, 16384) with the buffer size 4092 is
\* 0x8D06CD01 (halves 0x8D06 and 0xCD01).
C22_TestMagic ==
  (/\ callArgs = [id |-> 29, jumbo |-> 7, length |-> 16384]
   /\ "encoded" \in DOMAIN callResult)
  => callResult.encoded = [hi |-> 36102, lo |-> 52481]

\* C23 (as stated): after QueuePlayer and then AddPlayer for the same
\* character uid on a room, the character is in players and not in
\* queued_players.
C23_QueueThenAdd ==
  "added" \in DOMAIN callResult =>
    /\ callArgs.characterUid \in callResult.room.players
    /\ callArgs.characterUid \notin callResult.room.queuedPlayers

\* C23 (amended): after QueuePlayer and then AddPlayer for the same character
\* uid on a room with fewer committed players than max_player_count, which
\* every room QueuePlayer returned true for is, AddPlayer returns true and
\* the character is in players and not in queued_players; on any other room
\* both calls return false and leave the room as it was.
C23_AdmittedWhenRoom ==
  "added" \in DOMAIN callResult =>
    /\ callResult.queued => Cardinality(callArgs.room.players) < callArgs.room.maxPlayerCount
    /\ Cardinality(callArgs.room.players) < callArgs.room.maxPlayerCount =>
         /\ callResult.added
         /\ callArgs.characterUid \in callResult.room.players
         /\ callArgs.characterUid \notin callResult.room.queuedPlayers
    /\ ~(Cardinality(callArgs.room.players) < callArgs.room.maxPlayerCount) =>
         /\ ~callResult.queued /\ ~callResult.added
         /\ callResult.room = callArgs.room

\* A character was queued on a room with a free slot and then committed.
C23_QueuedThenCommitted ==
  /\ "added" \in DOMAIN callResult
  /\ callResult.queued /\ callResult.added
  /\ callArgs.characterUid \notin callArgs.room.players
  /\ callArgs.room.players # {}
  /\ callArgs.characterUid \in callResult.room.players

\* C25: a Perfect hurdle result increments jump_combo_value by one, capped at
\* 99, and then adds perfectJumpStarPoints + min(perfectJumpMaxBonusCombo,
\* combo) * perfectJumpUnitStarPoints to star_point_value, clamped to
\* starPointsMax; with the values 5, 1000, 200 and 40000, three consecutive
\* Perfects from 0 yield 1200, 2600 and 4200.
C25_PerfectHurdle ==
  /\ \A i \in 1..Len(callResult.types) :
       callResult.types[i] = "Perfect" =>
         LET before == callResult.racers[i]
             after == callResult.racers[i + 1]
             info == callArgs.info
             combo == IF before.jumpComboValue + 1 > 99 THEN 99
                      ELSE before.jumpComboValue + 1
             bonus == IF info.perfectJumpMaxBonusCombo < combo
                        THEN info.perfectJumpMaxBonusCombo ELSE combo
             sum == before.starPointValue + info.perfectJumpStarPoints
                      + bonus * info.perfectJumpUnitStarPoints
         IN /\ after.jumpComboValue = combo
            /\ after.starPointValue = IF sum > info.starPointsMax THEN info.starPointsMax
                                      ELSE sum
  /\ (/\ callArgs.info = SpeedInfo
      /\ callArgs.racer = NewRacer
      /\ \A i \in 1..Len(callResult.types) : callResult.types[i] = "Perfect")
     => \A i \in (1..Len(callResult.types)) \cap (1..3) :
          callResult.racers[i + 1].starPointValue = <<1200, 2600, 4200>>[i]

\* Three Perfects in a row from an empty gauge, and a Perfect that fills it.
C25_ThreePerfects ==
  /\ callArgs.info = SpeedInfo
  /\ callArgs.racer = NewRacer
  /\ Len(callResult.types) >= 3
  /\ \A i \in 1..3 : callResult.types[i] = "Perfect"
  /\ callResult.racers[4].starPointValue = 4200

\* C24: for every racer, at every moment of a race, star_point_value is at
\* most starPointsMax of the race's game mode, whatever StarPointGet,
\* HurdleClearResult, StartingRate, RaceUserPos, UserRaceItemGet, RequestSpur,
\* RequestMagicItem and ChangeRoomOptions commands are handled.
C24_GaugeWithinMax ==
  DOMAIN playInstance # {} =>
    \A c \in PlayRacers :
      playInstance.racers[c].starPointValue
        <= gameModeInfos[playInstance.raceGameMode].starPointsMax

\* C26: a racer is never sent an item-spawn for an item that has been spawned
\* for that racer (it is among the racer's tracked items) and has not been
\* picked up since, whatever position updates, pickups and respawn tasks
\* happen.
C26_SpawnOnce ==
  [][\A p \in spawnSent' : p[2] \notin playInstance.racers[p[1]].trackedItems]_vars

\* C27: IsNameValid accepts a name exactly when every character is in
\* [A-Za-z0-9._-] or is a Hangul syllable, its length after the locale's
\* encoding is 2 to 16 bytes, and it has at least 3 characters, or at least 2
\* when it consists purely of Hangul syllables; every other name is rejected.
C27_NameValidExactly ==
  "valid" \in DOMAIN callResult =>
    LET input == callArgs.input
        hangul == Cardinality({i \in DOMAIN input : input[i] = "hangul"})
        latin == Cardinality({i \in DOMAIN input : input[i] = "latin"})
        encoded == 2 * hangul + latin
    IN callResult.valid <=>
         /\ \A i \in DOMAIN input : input[i] \in {"hangul", "latin"}
         /\ encoded >= 2 /\ encoded <= 16
         /\ \/ Len(input) >= 3
            \/ Len(input) >= 2 /\ latin = 0

\* C28: when the record load for the head of a login queue is still in
\* progress, Tick leaves that head in place and makes no further pass of
\* that queue's loop in the same call; and a call of Tick always comes to
\* its end, whether or not a load completes.
C28_TickDoesNotWait ==
  /\ [][/\ (/\ tickPc = "responses" /\ loginResponseQueue # <<>>
            /\ WithLogin(clientLogins, Head(loginResponseQueue))
                 [Head(loginResponseQueue)].userName \in dataBeingLoaded')
           => ~(tickPc' = "responses" /\ tickPasses' > tickPasses)
        /\ (/\ tickPc = "requests" /\ loginRequestQueue # <<>>
            /\ WithLogin(clientLogins, Head(loginRequestQueue))
                 [Head(loginRequestQueue)].userName \in dataBeingLoaded')
           => ~(tickPc' = "requests" /\ tickPasses' > tickPasses)]_vars
  /\ (tickPc # "idle") ~> (tickPc = "idle")

\* C29: after a valid create-nickname frame the client passes the admission
\* step of stage B again: it is sent login-ok only once its user has been
\* inserted into user_instances.
C29_NicknameReentersStageB ==
  [][\A c \in ClientIds :
       (/\ c \in DOMAIN lobbyClients
        /\ lobbyClients[c].isAuthenticated
        /\ LobbyCreateNickname(c, TRUE)
        /\ "LoginOK" \in loginFrames'[c])
       => lobbyClients[c].userName \in userInstances']_vars

\* C30: when StartRace is issued with a pseudo-course selected,
\* race_map_block_id is set to a map of the game mode's pool whose required
\* level is at most the master's level; if there is no such map it is the
\* fallback map id; a map is never picked from an empty candidate list.
C30_MapFromCandidates ==
  (/\ "raceMapBlockId" \in DOMAIN callResult
   /\ callArgs.roomSelectedCourses \in {AllMapsCourseId, NewMapsCourseId, HotMapsCourseId})
  => LET candidates == {id \in callArgs.mapPool :
                          callArgs.requiredLevel[id] <= callArgs.masterLevel}
     IN /\ ~callResult.pickedFromEmpty
        /\ ~callResult.crashed
        /\ candidates # {} => callResult.raceMapBlockId \in candidates
        /\ candidates = {} => callResult.raceMapBlockId = FallbackMapBlockId

\* C31: after an accepted StartRace the instance's raceGameMode, raceTeamMode
\* and raceMissionId equal the gameMode, teamMode and missionId the room had
\* when the command was handled.
C31_SnapshotEqualsRoom ==
  callResult.started =>
    /\ callResult.raceInstance.raceGameMode = callResult.atCommand[1].gameMode
    /\ callResult.raceInstance.raceTeamMode = callResult.atCommand[1].teamMode
    /\ callResult.raceInstance.raceMissionId = callResult.atCommand[1].missionId

\* C32: every UserRaceItemGet, in Speed and in Magic mode and whether or not
\* the racer holds a magic item, erases the item from every racer's
\* trackedItems and queues the item-spawn broadcast of the item for the
\* respawn time.
C32_PickupErasesAndSchedules ==
  [][\A c \in PlayRacers, itemId \in PlayItems, gainedMagicItem \in MagicItems :
       PlayUserRaceItemGet(c, itemId, gainedMagicItem) =>
         /\ \A r \in PlayRacers : itemId \notin playInstance'.racers[r].trackedItems
         /\ Len(playTasks') = Len(playTasks) + 1
         /\ playTasks'[Len(playTasks')] = [at |-> playNow + ItemRespawnMs, itemId |-> itemId]]_vars

\* C33: the race result broadcast when an instance leaves Finishing holds
\* exactly one score entry for every racer of the race, also when racers have
\* the same course time or several racers are Disconnected.
C33_OneScorePerRacer ==
  callResult.stage = "Waiting" =>
    \A u \in DOMAIN callResult.racers :
      Cardinality({i \in DOMAIN callResult.scores : callResult.scores[i].uid = u}) = 1

\* C34: at any time at most one connected lobby client is authenticated under
\* a given user name.
C34_OneSessionPerUser ==
  \A a \in DOMAIN lobbyClients, b \in DOMAIN lobbyClients :
    /\ lobbyClients[a].isAuthenticated
    /\ lobbyClients[b].isAuthenticated
    /\ lobbyClients[a].userName = lobbyClients[b].userName
    => a = b

\* C35: once a lobby client has disconnected and the tasks its disconnect
\* queued have run, _userInstances holds no entry created for its login:
\* every entry belongs to a connected client authenticated under the name, or
\* to a client whose disconnect task has yet to run.
C35_NoOrphanUserInstance ==
  \A userName \in userInstances :
    \/ \E c \in DOMAIN lobbyClients :
         lobbyClients[c].userName = userName /\ lobbyClients[c].isAuthenticated
    \/ \E i \in DOMAIN loginTasks :
         loginTasks[i].kind = "Disconnect" /\ loginTasks[i].userName = userName

\* C36: a lobby EnterRoom answered with enter-room-cancel (room missing, wrong
\* password or room full) leaves the room's queuedPlayers unchanged.
C36_CancelLeavesQueue ==
  [][\A ch \in CharacterUids, r \in 1..MaxRooms, pw \in Passwords :
       LobbyEnterRoom(ch, r, pw) /\ EnterRoomCancelled(r, pw) /\ RoomExists(r) =>
         rooms'[r].queuedPlayers = rooms[r].queuedPlayers]_vars

\* C37: a MakeRoom answered with make-room-cancel leaves the room system
\* unchanged: no room created for the rejected request exists afterwards.
C37_CancelCreatesNoRoom ==
  [][\A ch \in CharacterUids, n \in PlayerCounts, name \in Names, pw \in Passwords :
       LobbyMakeRoom(ch, n, name, pw) /\ MakeRoomCancelled(n, name) =>
         DOMAIN rooms' = DOMAIN rooms]_vars

\* C38: DeleteRoom excludes every other operation of the room system: no room
\* is erased while a consumer of GetRoom or CreateRoom, or a snapshot, runs on
\* it, and the room map is not modified by DeleteRoom while another thread
\* holds the map lock to read or modify it.
C38_DeleteRoomExclusive ==
  [][\A t \in ThreadIds, uid \in 1..MaxCreates :
       DeleteRoom(t, uid) =>
         /\ roomsLock = 0
         /\ \A o \in ThreadIds \ {t} : ~(InRoom(o) /\ threads[o].ref = roomNode[uid])]_vars

\* C40: every key of _raceInstances is the uid of a room that exists in the
\* room system, and none is the reserved uid 0.
C40_InstancesHaveRooms ==
  \A r \in DOMAIN raceInstances : r # InvalidUid /\ RoomExists(r)

\* C39: every room that has been created is eventually deleted unless some
\* player stays committed in it: a room without committed players is in time
\* deleted or gets a committed player.
C39_RoomEventuallyDeleted ==
  \A r \in 1..MaxRooms :
    (RoomExists(r) /\ rooms[r].players = {}) ~> (~RoomExists(r) \/ rooms[r].players # {})

====
